---- MODULE Spec2Model ----
(***************************************************************************)
(* Model of the FSMConfig transition engine: StateMachine (lifecycle,      *)
(* triggerEvent, performTransition, observer fan-out), the CallbackRegistry*)
(* it calls through, and the part of ConfigParser that resolves the        *)
(* initial state, validates a configuration and finds transitions.         *)
(*                                                                         *)
(* Every public operation is one atomic action.  The hooks an operation    *)
(* invokes (callbacks, guards, actions, observer notifications, the error  *)
(* handler) and its assignments to current_state / started are recorded,   *)
(* in call order, in `log`; each entry carries the value current_state and *)
(* started had at the moment of the call.  `log` holds the trace of the    *)
(* last operation only, `lastOp` names that operation, its outcome and the *)
(* machine state it started from.                                          *)
(***************************************************************************)
EXTENDS Integers, Sequences, FiniteSets, TLC

VARIABLES
    config,                \* ConfigParser::Impl after loadFromString
    current_state,         \* StateMachine::Impl::current_state
    initial_state,         \* StateMachine::Impl::initial_state
    started,               \* StateMachine::Impl::started
    observers,             \* StateMachine::Impl::observers (registration order)
    error_handler,         \* StateMachine::Impl::error_handler
    state_callbacks,       \* CallbackRegistry::Impl::state_callbacks
    transition_callbacks,  \* CallbackRegistry::Impl::transition_callbacks
    guards,                \* CallbackRegistry::Impl::guards
    actions,               \* CallbackRegistry::Impl::actions
    global_variables,      \* VariableManager::Impl::global_variables
    state_variables,       \* VariableManager::Impl::state_variables
    history,               \* the registration calls made on the registry, in order
    held,                  \* what getGlobalVariables / getStateVariables returned
    registry_mutex,        \* CallbackRegistry::Impl::mutex: its owner, 0 if free
    thread,                \* where each thread is inside a CallbackRegistry call
    event_queue,           \* EventDispatcher::Impl::event_queue
    running,               \* EventDispatcher::Impl::running
    queue_mutex,           \* EventDispatcher::Impl::queue_mutex: its owner
    waiter,                \* the thread inside waitForEmptyQueue
    event_handler,         \* EventDispatcher::Impl::event_handler
    consumer,              \* the thread inside processOneEvent / processEvents
    delivery,              \* what was dispatched, removed and handled so far
    log,                   \* hooks invoked by the last operation, in order
    lastOp                 \* the last operation, its outcome and pre-state

vars == <<config, current_state, initial_state, started, observers,
          error_handler, state_callbacks, transition_callbacks, guards,
          actions, global_variables, state_variables, history, held,
          registry_mutex, thread, event_queue, running, queue_mutex, waiter,
          event_handler, consumer, delivery, log, lastOp>>

machineVars == <<current_state, initial_state, started>>
registryVars == <<state_callbacks, transition_callbacks, guards, actions>>
storeVars == <<global_variables, state_variables>>
lockVars == <<registry_mutex, thread>>
dispatcherVars == <<event_queue, running, queue_mutex, waiter>>
queueVars == <<event_handler, consumer, delivery>>

-----------------------------------------------------------------------------
(* Bounds and input alphabets                                              *)

NumObservers == 2
ObserverIds == 1..NumObservers

\* at most this many bindings are ever registered in the CallbackRegistry
MaxBindings == 4

NullCallable == "null"

\* the threads that call into one CallbackRegistry; 0 is no thread
Threads == {1, 2}

\* a thread that is not inside a CallbackRegistry call
Idle == [op |-> "", at |-> "idle"]

\* the consuming thread outside processOneEvent / processEvents
NotConsuming == [op |-> "", at |-> "outside"]

\* nothing dispatched yet: the events enqueued, the events taken out of the
\* queue (popped or cleared) and the handler calls, each in order
NothingDelivered == [enqueued |-> << >>, removed |-> << >>, handled |-> << >>]
StateCallables == {"f"}
ErrorHandlers == {"h"}

ActionNames == {"a1", "a2"}
EventNames == {"go", "back", "loop", "none"}

NoEvent == [event_name |-> "", from_state |-> "", to_state |-> ""]

-----------------------------------------------------------------------------
(* Configurations.  A raw configuration is the content of a YAML document: *)
(* the states in declaration order, the transitions in declaration order   *)
(* and the optional initial_state scalar (a sequence of length 0 or 1).    *)

\* an empty std::map<std::string, VariableValue>
NoVariables == [n \in {} |-> 0]

StateInfo(enter, exit, acts, variables) ==
    [on_enter_callback |-> enter, on_exit_callback |-> exit, actions |-> acts,
     variables |-> variables]

TransitionInfo(from, to, event, guard, cb, acts) ==
    [from_state |-> from, to_state |-> to, event_name |-> event,
     guard_callback |-> guard, transition_callback |-> cb, actions |-> acts]

MainStates ==
    [s \in {"idle", "active"} |->
        IF s = "idle" THEN StateInfo("", "exitIdle", <<"a1", "a2">>,
                                     [n \in {"x"} |-> 2])
                      ELSE StateInfo("enterActive", "", <<"a2">>, NoVariables)]

\* the top-level `variables` section of the main configuration
MainVariables == [n \in {"x"} |-> 1]

MainTransitions ==
    << TransitionInfo("idle", "active", "go", "canGo", "onGo", <<"a2", "a1">>),
       TransitionInfo("active", "idle", "back", "", "", <<>>),
       TransitionInfo("idle", "idle", "loop", "", "onLoop", <<"a1", "a1">>) >>

RawMain ==
    [state_order |-> <<"idle", "active">>, states |-> MainStates,
     transitions |-> MainTransitions, initial_state |-> <<>>,
     variables |-> MainVariables]

RawNoStates ==
    [state_order |-> <<>>,
     states |-> [s \in {} |-> StateInfo("", "", <<>>, NoVariables)],
     transitions |-> <<>>, initial_state |-> <<>>, variables |-> NoVariables]

RawGhostInitial ==
    [state_order |-> <<"idle", "active">>, states |-> MainStates,
     transitions |-> MainTransitions, initial_state |-> <<"ghost">>,
     variables |-> MainVariables]

RawDanglingTarget ==
    [state_order |-> <<"idle">>,
     states |-> [s \in {"idle"} |-> StateInfo("", "", <<>>, NoVariables)],
     transitions |-> << TransitionInfo("idle", "active", "go", "", "", <<>>) >>,
     initial_state |-> <<>>, variables |-> NoVariables]

RawDuplicate ==
    [state_order |-> <<"idle", "active">>, states |-> MainStates,
     transitions |-> MainTransitions \o
        << TransitionInfo("idle", "idle", "go", "", "", <<>>) >>,
     initial_state |-> <<>>, variables |-> MainVariables]

\* scenario B: playing --player_died--> game_over, guarded on health
RawGame ==
    [state_order |-> <<"playing", "game_over">>,
     states |-> [s \in {"playing", "game_over"} |->
                    StateInfo("", "", <<>>, NoVariables)],
     transitions |-> << TransitionInfo("playing", "game_over", "player_died",
                                       "healthIsSpent", "", <<>>) >>,
     initial_state |-> <<>>,
     variables |-> [n \in {"health"} |-> 100]]

RawConfigs == {RawMain, RawNoStates, RawGhostInitial, RawDanglingTarget, RawDuplicate}

\* ConfigParser::parseStates + the initial_state override of loadFromString
ResolveInitialState(raw) ==
    LET first == IF Len(raw.state_order) > 0 THEN raw.state_order[1] ELSE ""
    IN  IF Len(raw.initial_state) > 0 THEN raw.initial_state[1] ELSE first

\* mutant: the target of a transition is not checked
validateConfig_noTargetCheck(raw) ==
    /\ \A i \in 1..Len(raw.transitions) :
          raw.transitions[i].from_state \in DOMAIN raw.states
    /\ \A i, j \in 1..Len(raw.transitions) :
          (/\ i < j
           /\ raw.transitions[i].from_state = raw.transitions[j].from_state
           /\ raw.transitions[i].event_name = raw.transitions[j].event_name) => FALSE

\* ConfigParser::validateConfig: TRUE iff no ConfigException is thrown
validateConfig(raw) ==
    /\ \A i \in 1..Len(raw.transitions) :
          /\ raw.transitions[i].from_state \in DOMAIN raw.states
          /\ raw.transitions[i].to_state \in DOMAIN raw.states
    /\ \A i, j \in 1..Len(raw.transitions) :
          (/\ i < j
           /\ raw.transitions[i].from_state = raw.transitions[j].from_state
           /\ raw.transitions[i].event_name = raw.transitions[j].event_name) => FALSE

\* ConfigParser::loadFromString: the loaded model (only called on valid input)
loadFromString(raw) ==
    [states |-> raw.states, transitions |-> raw.transitions,
     initial_state |-> ResolveInitialState(raw),
     global_variables |-> raw.variables]

\* ConfigParser::hasState / StateMachine::hasState (same key set)
hasState(state_name) == state_name \in DOMAIN config.states

\* mutant: the lookup forgets to compare the event name
findTransition_anyEvent(from_state, event_name) ==
    LET hits == {i \in 1..Len(config.transitions) :
                    config.transitions[i].from_state = from_state}
    IN  IF hits = {} THEN 0
        ELSE CHOOSE i \in hits : \A j \in hits : i <= j

\* ConfigParser::findTransition: index of the first match, 0 for nullptr
findTransition(from_state, event_name) ==
    LET hits == {i \in 1..Len(config.transitions) :
                    /\ config.transitions[i].from_state = from_state
                    /\ config.transitions[i].event_name = event_name}
    IN  IF hits = {} THEN 0
        ELSE CHOOSE i \in hits : \A j \in hits : i <= j

-----------------------------------------------------------------------------
(* CallbackRegistry                                                        *)

makeStateCallbackKey(state_name, callback_type) == state_name \o ":" \o callback_type
makeTransitionCallbackKey(from_state, to_state) == from_state \o ":" \o to_state
makeGuardKey(from_state, to_state, event_name) ==
    from_state \o ":" \o to_state \o ":" \o event_name

\* mutant: std::map::insert, which keeps the value of an existing key
MapPut_keepFirst(m, k, v) ==
    [x \in DOMAIN m \cup {k} |-> IF x \in DOMAIN m THEN m[x] ELSE v]

\* std::map operator[] assignment
MapPut(m, k, v) == [x \in DOMAIN m \cup {k} |-> IF x = k THEN v ELSE m[x]]

EmptyMap == [x \in {} |-> NullCallable]

NumBindings ==
    Cardinality(DOMAIN state_callbacks) + Cardinality(DOMAIN transition_callbacks)
    + Cardinality(DOMAIN guards) + Cardinality(DOMAIN actions)

\* the registration bound: a new key is bound only while there is room
Room(m, key, callback) ==
    callback # NullCallable => (key \in DOMAIN m \/ NumBindings < MaxBindings)

\* `it != end() && it->second`: the key is bound to a non-empty callable
IsBound(m, key) == key \in DOMAIN m /\ m[key] # NullCallable

\* mutant: a binding counts only if the configuration names an on_enter
hasStateCallback_declaredOnly(state_name, callback_type) ==
    /\ IsBound(state_callbacks, makeStateCallbackKey(state_name, callback_type))
    /\ state_name \in DOMAIN config.states
    /\ config.states[state_name].on_enter_callback # ""

hasStateCallback(state_name, callback_type) ==
    IsBound(state_callbacks, makeStateCallbackKey(state_name, callback_type))

\* One log entry: a hook invocation (or an assignment to current_state /
\* started) together with the machine state at that moment.
Entry(kind, key, obs, ev, cur, st) ==
    [kind |-> kind, key |-> key, obs |-> obs, event |-> ev, cur |-> cur, started |-> st]

\* CallbackRegistry::callStateCallback: invokes the binding if present
callStateCallback(state_name, callback_type, cur, st) ==
    LET key == makeStateCallbackKey(state_name, callback_type)
    IN  IF IsBound(state_callbacks, key)
        THEN << Entry("state_callback", key, 0, NoEvent, cur, st) >>
        ELSE << >>

\* CallbackRegistry::callTransitionCallback
callTransitionCallback(from_state, to_state, ev, cur, st) ==
    LET key == makeTransitionCallbackKey(from_state, to_state)
    IN  IF IsBound(transition_callbacks, key)
        THEN << Entry("transition_callback", key, 0, ev, cur, st) >>
        ELSE << >>

\* mutant: the global scope is searched before the state's own variables
VariableManager_getVariable_globalFirst(state_name, name) ==
    IF name \in DOMAIN global_variables
    THEN << global_variables[name] >>
    ELSE IF /\ state_name \in DOMAIN state_variables
            /\ name \in DOMAIN state_variables[state_name]
         THEN << state_variables[state_name][name] >>
    ELSE << >>

\* VariableManager::getVariable: local first, then global, else nullopt
VariableManager_getVariable(state_name, name) ==
    IF /\ state_name \in DOMAIN state_variables
       /\ name \in DOMAIN state_variables[state_name]
    THEN << state_variables[state_name][name] >>
    ELSE IF name \in DOMAIN global_variables
         THEN << global_variables[name] >>
    ELSE << >>

\* mutant: the health guard passes whatever the store holds
GuardValue_ignoresStore(callable) == callable \in {"gTrue", "gHealth"}

\* The value a registered guard callable returns: "gTrue" true, "gFalse"
\* false, "gHealth" reads health through StateMachine::getVariable and
\* passes at 0 or below
GuardValue(callable) ==
    \/ callable = "gTrue"
    \/ /\ callable = "gHealth"
       /\ VariableManager_getVariable(current_state, "health") # << >>
       /\ VariableManager_getVariable(current_state, "health")[1] <= 0

\* mutant: a missing guard lets the transition through (fail-open)
callGuard_failOpen(from_state, to_state, event_name) ==
    LET key == makeGuardKey(from_state, to_state, event_name)
    IN  IF key \in DOMAIN guards THEN GuardValue(guards[key]) ELSE TRUE

\* CallbackRegistry::callGuard: result of the call (false when missing)
callGuard(from_state, to_state, event_name) ==
    LET key == makeGuardKey(from_state, to_state, event_name)
    IN  IF IsBound(guards, key) THEN GuardValue(guards[key]) ELSE FALSE

\* CallbackRegistry::callGuard: the invocation it performs
callGuardLog(from_state, to_state, event_name, cur, st) ==
    LET key == makeGuardKey(from_state, to_state, event_name)
    IN  IF IsBound(guards, key)
        THEN << Entry("guard", key, 0, NoEvent, cur, st) >>
        ELSE << >>

\* CallbackRegistry::callAction
callAction(action_name, cur, st) ==
    IF IsBound(actions, action_name)
    THEN << Entry("action", action_name, 0, NoEvent, cur, st) >>
    ELSE << >>

RECURSIVE callActions(_, _, _)
callActions(names, cur, st) ==
    IF names = << >> THEN << >>
    ELSE callAction(Head(names), cur, st) \o callActions(Tail(names), cur, st)

-----------------------------------------------------------------------------
(* StateMachine helpers                                                    *)

\* for (auto* observer : impl_->observers) observer->hook(arg)
NotifyObservers(hook, arg, ev, cur, st) ==
    [i \in 1..Len(observers) |-> Entry(hook, arg, observers[i], ev, cur, st)]

\* if (impl_->error_handler) impl_->error_handler(error)
\* mutant: the handler is called a second time on the way out
reportError_twice(error, cur, st) ==
    IF error_handler # NullCallable
    THEN << Entry("error_handler", error, 0, NoEvent, cur, st),
            Entry("error_handler", error, 0, NoEvent, cur, st) >>
    ELSE << >>

reportError(error, cur, st) ==
    IF error_handler # NullCallable
    THEN << Entry("error_handler", error, 0, NoEvent, cur, st) >>
    ELSE << >>

\* report to the error handler, then throw StateException(error)
Failure(error) ==
    [current_state |-> current_state, started |-> started,
     log |-> reportError(error, current_state, started),
     result |-> "StateException", error |-> error]

\* ConfigParser::getState throws ConfigException for an unknown state
getStateThrows(state_name, cur, st, lg) ==
    [current_state |-> cur, started |-> st, log |-> lg,
     result |-> "ConfigException",
     error |-> "State '" \o state_name \o "' not found"]

Ok(cur, st, lg) ==
    [current_state |-> cur, started |-> st, log |-> lg,
     result |-> "ok", error |-> ""]

\* StateMachine::executeStateActions (state_name is a declared state)
executeStateActions(state_name, cur, st) ==
    callActions(config.states[state_name].actions, cur, st)

\* mutant: the loop ends at the first action that has no binding
executeTransitionActions_stopAtMissing(names, cur, st) ==
    LET missing == {p \in DOMAIN names : ~IsBound(actions, names[p])}
        n == IF missing = {} THEN Len(names)
             ELSE (CHOOSE p \in missing : \A q \in missing : p <= q) - 1
    IN  callActions(SubSeq(names, 1, n), cur, st)

\* StateMachine::executeTransitionActions
executeTransitionActions(names, cur, st) == callActions(names, cur, st)

\* mutant: the guard's verdict is inverted
evaluateGuard_inverted(from_state, to_state, event_name) ==
    ~callGuard(from_state, to_state, event_name)

\* StateMachine::evaluateGuard: the value returned
evaluateGuard(from_state, to_state, event_name) ==
    callGuard(from_state, to_state, event_name)

\* mutant: the guard is called a second time
evaluateGuardLog_twice(from_state, to_state, event_name) ==
    callGuardLog(from_state, to_state, event_name, current_state, started)
    \o callGuardLog(from_state, to_state, event_name, current_state, started)

\* StateMachine::evaluateGuard: the guard invocations it causes
evaluateGuardLog(from_state, to_state, event_name) ==
    callGuardLog(from_state, to_state, event_name, current_state, started)

-----------------------------------------------------------------------------
(* StateMachine::start                                                     *)

\* mutant: start() does not check that the machine is already started
startError_noStartedCheck ==
    IF initial_state = "" THEN "No initial state found in configuration"
    ELSE IF ~hasState(initial_state)
         THEN "Initial state '" \o initial_state \o "' not found"
    ELSE ""

\* mutant: start() does not check that the initial state is declared
startError_noHasStateCheck ==
    IF started THEN "StateMachine is already started"
    ELSE IF initial_state = "" THEN "No initial state found in configuration"
    ELSE ""

\* The precondition checks of start(): the error message, "" when none
startError ==
    IF started THEN "StateMachine is already started"
    ELSE IF initial_state = "" THEN "No initial state found in configuration"
    ELSE IF ~hasState(initial_state)
         THEN "Initial state '" \o initial_state \o "' not found"
    ELSE ""

\* on_enter of the initial state, gated by the registry
startEnterLog(cur) ==
    << Entry("set_current_state", cur, 0, NoEvent, current_state, FALSE) >>
    \o (IF hasStateCallback(cur, "on_enter")
        THEN callStateCallback(cur, "on_enter", cur, FALSE) ELSE << >>)

\* mutant: observers are notified before the state's actions run
startLog_observersFirst(cur) ==
    startEnterLog(cur)
    \o NotifyObservers("onStateEnter", cur, NoEvent, cur, FALSE)
    \o executeStateActions(cur, cur, FALSE)
    \o << Entry("set_started", "true", 0, NoEvent, cur, FALSE) >>

\* The body of a start() whose preconditions hold
startLog(cur) ==
    startEnterLog(cur)
    \o executeStateActions(cur, cur, FALSE)
    \o NotifyObservers("onStateEnter", cur, NoEvent, cur, FALSE)
    \o << Entry("set_started", "true", 0, NoEvent, cur, FALSE) >>

\* mutant: a stopped machine resumes in the state it was stopped in
startResult_resumes ==
    IF startError # "" THEN Failure(startError)
    ELSE IF current_state # ""
         THEN Ok(current_state, TRUE, startLog(current_state))
    ELSE Ok(initial_state, TRUE, startLog(initial_state))

startResult ==
    IF startError # "" THEN Failure(startError)
    ELSE IF ~hasState(initial_state)
         THEN getStateThrows(initial_state, initial_state, FALSE,
                             startEnterLog(initial_state))
    ELSE Ok(initial_state, TRUE, startLog(initial_state))

-----------------------------------------------------------------------------
(* StateMachine::stop                                                      *)

\* The precondition check of stop()
stopError == IF ~started THEN "StateMachine is not started" ELSE ""

\* mutant: on_exit is gated by the configuration, as in performTransition
stopLog_declaredOnly ==
    (IF current_state # ""
     THEN (IF hasState(current_state)
              /\ config.states[current_state].on_exit_callback # ""
           THEN callStateCallback(current_state, "on_exit", current_state, TRUE)
           ELSE << >>)
          \o NotifyObservers("onStateExit", current_state, NoEvent,
                             current_state, TRUE)
     ELSE << >>)
    \o << Entry("set_started", "false", 0, NoEvent, current_state, TRUE) >>

\* The body of a stop() on a started machine
stopLog ==
    (IF current_state # ""
     THEN callStateCallback(current_state, "on_exit", current_state, TRUE)
          \o NotifyObservers("onStateExit", current_state, NoEvent,
                             current_state, TRUE)
     ELSE << >>)
    \o << Entry("set_started", "false", 0, NoEvent, current_state, TRUE) >>

stopResult ==
    IF stopError # "" THEN Failure(stopError)
    ELSE Ok(current_state, FALSE, stopLog)

-----------------------------------------------------------------------------
(* StateMachine::reset: stop() if started, then Impl::clear()              *)

\* mutant: reset forgets the current state and leaves the flag alone
resetResult_clearOnly ==
    Ok("", started,
       << Entry("set_current_state", "", 0, NoEvent, current_state, started) >>)

\* mutant: reset clears the machine without stopping it first
resetResult_noStop ==
    Ok("", FALSE,
       << Entry("set_current_state", "", 0, NoEvent, current_state, started),
          Entry("set_started", "false", 0, NoEvent, "", started) >>)

resetResult ==
    LET stopped == IF started THEN stopLog ELSE << >>
    IN  Ok("", FALSE,
           stopped \o << Entry("set_current_state", "", 0, NoEvent,
                               current_state, FALSE),
                         Entry("set_started", "false", 0, NoEvent, "", FALSE) >>)

-----------------------------------------------------------------------------
(* StateMachine::performTransition                                         *)

\* mutant: the transition callback is invoked before the transition's actions
performTransitionLog_callbackFirst(ev) ==
    LET old_state == current_state
        new_state == ev.to_state
        t == findTransition(old_state, ev.event_name)
    IN  (IF config.states[old_state].on_exit_callback # ""
         THEN callStateCallback(old_state, "on_exit", old_state, TRUE)
         ELSE << >>)
        \o NotifyObservers("onStateExit", old_state, NoEvent, old_state, TRUE)
        \o (IF t # 0 /\ config.transitions[t].transition_callback # ""
            THEN callTransitionCallback(old_state, new_state, ev, old_state, TRUE)
            ELSE << >>)
        \o (IF t # 0 /\ config.transitions[t].actions # << >>
            THEN executeTransitionActions(config.transitions[t].actions,
                                          old_state, TRUE)
            ELSE << >>)
        \o << Entry("set_current_state", new_state, 0, NoEvent, old_state, TRUE) >>
        \o (IF hasStateCallback(new_state, "on_enter")
            THEN callStateCallback(new_state, "on_enter", new_state, TRUE)
            ELSE << >>)
        \o executeStateActions(new_state, new_state, TRUE)
        \o NotifyObservers("onStateEnter", new_state, NoEvent, new_state, TRUE)
        \o NotifyObservers("onTransition", ev.event_name, ev, new_state, TRUE)

\* The body of performTransition once the target state is known to exist
performTransitionLog(ev) ==
    LET old_state == current_state
        new_state == ev.to_state
        t == findTransition(old_state, ev.event_name)
    IN  (IF config.states[old_state].on_exit_callback # ""
         THEN callStateCallback(old_state, "on_exit", old_state, TRUE)
         ELSE << >>)
        \o NotifyObservers("onStateExit", old_state, NoEvent, old_state, TRUE)
        \o (IF t # 0 /\ config.transitions[t].actions # << >>
            THEN executeTransitionActions(config.transitions[t].actions,
                                          old_state, TRUE)
            ELSE << >>)
        \o (IF t # 0 /\ config.transitions[t].transition_callback # ""
            THEN callTransitionCallback(old_state, new_state, ev, old_state, TRUE)
            ELSE << >>)
        \o << Entry("set_current_state", new_state, 0, NoEvent, old_state, TRUE) >>
        \o (IF hasStateCallback(new_state, "on_enter")
            THEN callStateCallback(new_state, "on_enter", new_state, TRUE)
            ELSE << >>)
        \o executeStateActions(new_state, new_state, TRUE)
        \o NotifyObservers("onStateEnter", new_state, NoEvent, new_state, TRUE)
        \o NotifyObservers("onTransition", ev.event_name, ev, new_state, TRUE)

\* mutant: a declared on-exit callback without a binding is an error
performTransition_strict(ev, prefix) ==
    IF ~hasState(ev.to_state)
    THEN LET f == Failure("Target state '" \o ev.to_state \o "' does not exist")
         IN  [f EXCEPT !.log = prefix \o f.log]
    ELSE IF ~hasState(current_state)
         THEN getStateThrows(current_state, current_state, started, prefix)
    ELSE IF /\ config.states[current_state].on_exit_callback # ""
            /\ ~hasStateCallback(current_state, "on_exit")
         THEN LET f == Failure("Callback '"
                               \o config.states[current_state].on_exit_callback
                               \o "' is not registered")
              IN  [f EXCEPT !.log = prefix \o f.log]
    ELSE Ok(ev.to_state, started, prefix \o performTransitionLog(ev))

\* prefix: the hooks triggerEvent invoked before calling performTransition
performTransition(ev, prefix) ==
    IF ~hasState(ev.to_state)
    THEN LET f == Failure("Target state '" \o ev.to_state \o "' does not exist")
         IN  [f EXCEPT !.log = prefix \o f.log]
    ELSE IF ~hasState(current_state)
         THEN getStateThrows(current_state, current_state, started, prefix)
    ELSE Ok(ev.to_state, started, prefix \o performTransitionLog(ev))

-----------------------------------------------------------------------------
(* StateMachine::triggerEvent                                              *)

\* mutant: triggerEvent() only checks that there is a current state
triggerEventError_noStartedCheck ==
    IF current_state = "" THEN "No current state" ELSE ""

\* The precondition checks of triggerEvent(): the error message, "" when none
triggerEventError ==
    IF ~started THEN "StateMachine is not started"
    ELSE IF current_state = "" THEN "No current state"
    ELSE ""

triggerEventResult(event_name) ==
    IF triggerEventError # "" THEN Failure(triggerEventError)
    ELSE LET t == findTransition(current_state, event_name)
         IN  IF t = 0 THEN Ok(current_state, started, << >>)
             ELSE LET tr == config.transitions[t]
                      guarded == tr.guard_callback # ""
                      guardLog ==
                          IF guarded
                          THEN evaluateGuardLog(tr.from_state, tr.to_state, event_name)
                          ELSE << >>
                      ev == [event_name |-> event_name,
                             from_state |-> current_state,
                             to_state |-> tr.to_state]
                 IN  IF guarded /\ ~evaluateGuard(tr.from_state, tr.to_state, event_name)
                     THEN Ok(current_state, started, guardLog)
                     ELSE performTransition(ev, guardLog)

-----------------------------------------------------------------------------
(* Actions: one per public operation                                       *)

OpRecord(op, arg, r) ==
    [op |-> op, arg |-> arg, result |-> r.result, error |-> r.error,
     pre_current_state |-> current_state, pre_started |-> started]

\* mutant: reset() loads the states' variables from the configuration again
Apply_reinitialises(op, arg, r) ==
    /\ current_state' = r.current_state
    /\ started' = r.started
    /\ log' = r.log
    /\ lastOp' = OpRecord(op, arg, r)
    /\ state_variables' =
          IF op = "reset"
          THEN [s \in {t \in DOMAIN config.states :
                          DOMAIN config.states[t].variables # {}}
                   |-> config.states[s].variables]
          ELSE state_variables
    /\ UNCHANGED <<global_variables, history, held, lockVars, dispatcherVars,
                   queueVars>>

\* A lifecycle call or an event: the machine state and the hooks it invokes
Apply(op, arg, r) ==
    /\ current_state' = r.current_state
    /\ started' = r.started
    /\ log' = r.log
    /\ lastOp' = OpRecord(op, arg, r)
    /\ UNCHANGED <<storeVars, history, held, lockVars, dispatcherVars, queueVars>>

\* A setup call (registration, observer list, error handler): it touches
\* neither the machine state nor any hook
Setup ==
    /\ log' = << >>
    /\ lastOp' = OpRecord("setup", "", Ok(current_state, started, << >>))
    /\ UNCHANGED <<machineVars, storeVars, history, held, lockVars,
                   dispatcherVars, queueVars>>

start ==
    /\ Apply("start", "", startResult)
    /\ UNCHANGED <<config, initial_state, observers, error_handler, registryVars>>

stop ==
    /\ Apply("stop", "", stopResult)
    /\ UNCHANGED <<config, initial_state, observers, error_handler, registryVars>>

reset ==
    /\ Apply("reset", "", resetResult)
    /\ UNCHANGED <<config, initial_state, observers, error_handler, registryVars>>

triggerEvent ==
    \E event_name \in EventNames :
        /\ Apply("triggerEvent", event_name, triggerEventResult(event_name))
        /\ UNCHANGED <<config, initial_state, observers, error_handler, registryVars>>

StateCallbackInputs ==
    {<<"idle", "on_enter">>, <<"idle", "on_exit">>, <<"active", "on_exit">>}
    \X (StateCallables \cup {NullCallable})

registerStateCallback ==
    \E in \in StateCallbackInputs :
        /\ Room(state_callbacks, makeStateCallbackKey(in[1][1], in[1][2]), in[2])
        /\ state_callbacks' =
              IF in[2] = NullCallable THEN state_callbacks
              ELSE MapPut(state_callbacks,
                          makeStateCallbackKey(in[1][1], in[1][2]), in[2])
        /\ Setup
        /\ UNCHANGED <<config, observers, error_handler, transition_callbacks,
                       guards, actions>>

TransitionCallbackInputs ==
    {<<"active", "idle">>, <<"idle", "idle">>} \X (StateCallables \cup {NullCallable})

registerTransitionCallback ==
    \E in \in TransitionCallbackInputs :
        /\ Room(transition_callbacks, makeTransitionCallbackKey(in[1][1], in[1][2]), in[2])
        /\ transition_callbacks' =
              IF in[2] = NullCallable THEN transition_callbacks
              ELSE MapPut(transition_callbacks,
                          makeTransitionCallbackKey(in[1][1], in[1][2]), in[2])
        /\ Setup
        /\ UNCHANGED <<config, observers, error_handler, state_callbacks,
                       guards, actions>>

GuardInputs ==
    { <<"idle", "active", "go", "gTrue">>,
      <<"idle", "active", "go", "gFalse">>,
      <<"idle", "active", "go", NullCallable>>,
      <<"active", "idle", "back", "gFalse">> }

registerGuard ==
    \E in \in GuardInputs :
        /\ Room(guards, makeGuardKey(in[1], in[2], in[3]), in[4])
        /\ guards' =
              IF in[4] = NullCallable THEN guards
              ELSE MapPut(guards, makeGuardKey(in[1], in[2], in[3]), in[4])
        /\ Setup
        /\ UNCHANGED <<config, observers, error_handler, state_callbacks,
                       transition_callbacks, actions>>

registerAction ==
    \E name \in ActionNames, callback \in StateCallables \cup {NullCallable} :
        /\ Room(actions, name, callback)
        /\ actions' = IF callback = NullCallable THEN actions
                      ELSE MapPut(actions, name, callback)
        /\ Setup
        /\ UNCHANGED <<config, observers, error_handler, state_callbacks,
                       transition_callbacks, guards>>

\* mutant: the observer is appended without looking for it in the list
registerStateObserver_noDuplicateCheck ==
    \E observer \in ObserverIds \cup {0} :
        /\ observers' =
              IF observer = 0 THEN observers ELSE Append(observers, observer)
        /\ Setup
        /\ UNCHANGED <<config, error_handler, registryVars>>

\* observer 0 stands for nullptr
registerStateObserver ==
    \E observer \in ObserverIds \cup {0} :
        /\ observers' =
              IF observer = 0 THEN observers
              ELSE IF \E i \in 1..Len(observers) : observers[i] = observer
                   THEN observers
              ELSE Append(observers, observer)
        /\ Setup
        /\ UNCHANGED <<config, error_handler, registryVars>>

unregisterStateObserver ==
    \E observer \in ObserverIds \cup {0} :
        /\ observers' =
              IF observer = 0 THEN observers
              ELSE SelectSeq(observers, LAMBDA o : o # observer)
        /\ Setup
        /\ UNCHANGED <<config, error_handler, registryVars>>

setErrorHandler ==
    \E handler \in ErrorHandlers \cup {NullCallable} :
        /\ error_handler' = handler
        /\ Setup
        /\ UNCHANGED <<config, observers, registryVars>>

-----------------------------------------------------------------------------
(* VariableManager and the variable operations of StateMachine.  An        *)
(* optional value is a sequence of length 0 (nullopt) or 1.                *)

VariableNames == {"x", "y"}
VariableValues == {1, 2}

\* VariableManager::setGlobalVariable
setGlobalVariable(globals, name, value) == MapPut(globals, name, value)

\* VariableManager::setStateVariable: state_variables[state][name] = value
setStateVariable(locals, state_name, name, value) ==
    MapPut(locals, state_name,
           MapPut(IF state_name \in DOMAIN locals THEN locals[state_name]
                  ELSE NoVariables,
                  name, value))

\* the record of a variable operation: OpRecord plus the value involved
VarOpRecord(op, arg, r, value) ==
    [op |-> op, arg |-> arg, result |-> r.result, error |-> r.error,
     pre_current_state |-> current_state, pre_started |-> started,
     value |-> value]

\* mutant: every write goes to the global scope
setVariable_alwaysGlobal ==
    \E name \in VariableNames, value \in VariableValues :
        /\ global_variables' = setGlobalVariable(global_variables, name, value)
        /\ UNCHANGED state_variables
        /\ log' = << >>
        /\ lastOp' = VarOpRecord("setVariable", name,
                                 Ok(current_state, started, << >>), << value >>)
        /\ UNCHANGED <<config, machineVars, observers, error_handler,
                       registryVars, history, held, lockVars, dispatcherVars, queueVars>>

\* StateMachine::setVariable: local to the current state if there is one,
\* global otherwise
setVariable ==
    \E name \in VariableNames, value \in VariableValues :
        /\ IF current_state # ""
           THEN /\ state_variables' =
                      setStateVariable(state_variables, current_state, name, value)
                /\ UNCHANGED global_variables
           ELSE /\ global_variables' =
                      setGlobalVariable(global_variables, name, value)
                /\ UNCHANGED state_variables
        /\ log' = << >>
        /\ lastOp' = VarOpRecord("setVariable", name,
                                 Ok(current_state, started, << >>), << value >>)
        /\ UNCHANGED <<config, machineVars, observers, error_handler,
                       registryVars, history, held, lockVars, dispatcherVars, queueVars>>

\* StateMachine::getVariable: the value, or error handler + StateException
getVariableResult(name) ==
    IF VariableManager_getVariable(current_state, name) = << >>
    THEN Failure("Variable '" \o name \o "' not found")
    ELSE Ok(current_state, started, << >>)

getVariable ==
    \E name \in VariableNames :
        /\ log' = getVariableResult(name).log
        /\ lastOp' = VarOpRecord("getVariable", name, getVariableResult(name),
                                 VariableManager_getVariable(current_state, name))
        /\ UNCHANGED <<config, machineVars, observers, error_handler,
                       registryVars, storeVars, history, held, lockVars,
                       dispatcherVars, queueVars>>

-----------------------------------------------------------------------------
(* Callbacks, actions and observers that throw.  The engine has no try     *)
(* block: an exception leaves the operation at the call that raised it,    *)
(* with the assignments made up to there in place.                         *)

\* an observer whose notifications throw
ThrowingObserver == NumObservers + 1

\* the hook invocation throws
Throws(en) ==
    \/ /\ en.kind = "state_callback"
       /\ state_callbacks[en.key] = "fThrow"
    \/ /\ en.kind = "transition_callback"
       /\ transition_callbacks[en.key] = "fThrow"
    \/ /\ en.kind = "action"
       /\ actions[en.key] = "fThrow"
    \/ /\ en.kind \in {"onStateEnter", "onStateExit", "onTransition"}
       /\ en.obs = ThrowingObserver

\* the value the last assignment recorded in `trace` left, `before` if none
LastAssigned(trace, kind, before) ==
    LET at == {i \in DOMAIN trace : trace[i].kind = kind}
    IN  IF at = {} THEN before
        ELSE trace[CHOOSE i \in at : \A j \in at : j <= i].key

\* the operation as far as its first throwing hook
Unwound(r) ==
    LET thrown == {i \in DOMAIN r.log : Throws(r.log[i])}
        done == SubSeq(r.log, 1, CHOOSE i \in thrown : \A j \in thrown : i <= j)
    IN  IF thrown = {} THEN r
        ELSE [current_state |->
                  LastAssigned(done, "set_current_state", current_state),
              started |->
                  LastAssigned(done, "set_started",
                               IF started THEN "true" ELSE "false") = "true",
              log |-> done, result |-> "exception", error |-> ""]

Unwinding_start ==
    /\ Apply("start", "", Unwound(startResult))
    /\ UNCHANGED <<config, initial_state, observers, error_handler, registryVars>>

Unwinding_stop ==
    /\ Apply("stop", "", Unwound(stopResult))
    /\ UNCHANGED <<config, initial_state, observers, error_handler, registryVars>>

Unwinding_reset ==
    /\ Apply("reset", "", Unwound(resetResult))
    /\ UNCHANGED <<config, initial_state, observers, error_handler, registryVars>>

Unwinding_triggerEvent ==
    \E event_name \in EventNames :
        /\ Apply("triggerEvent", event_name,
                 Unwound(triggerEventResult(event_name)))
        /\ UNCHANGED <<config, initial_state, observers, error_handler, registryVars>>

Throwing_registerStateCallback ==
    \E key \in {<<"idle", "on_enter">>, <<"active", "on_enter">>,
                <<"idle", "on_exit">>},
       callback \in {"f", "fThrow"} :
        /\ state_callbacks' =
              MapPut(state_callbacks, makeStateCallbackKey(key[1], key[2]),
                     callback)
        /\ Setup
        /\ UNCHANGED <<config, observers, error_handler, transition_callbacks,
                       guards, actions>>

Throwing_registerAction ==
    \E callback \in {"f", "fThrow"} :
        /\ actions' = MapPut(actions, "a1", callback)
        /\ Setup
        /\ UNCHANGED <<config, observers, error_handler, state_callbacks,
                       transition_callbacks, guards>>

Throwing_registerStateObserver ==
    \E observer \in {1, ThrowingObserver} :
        /\ observers' =
              IF \E i \in 1..Len(observers) : observers[i] = observer
              THEN observers
              ELSE Append(observers, observer)
        /\ Setup
        /\ UNCHANGED <<config, error_handler, registryVars>>

-----------------------------------------------------------------------------
(* An observer that calls triggerEvent("back") from inside its             *)
(* onStateEnter("active") notification.  The nested call runs to its end   *)
(* on the caller's stack; the outer notification loop then goes on with    *)
(* the state name it captured before the nested call.                      *)

ReentrantObserver == NumObservers + 2

\* the body of performTransition when the machine is Running in old_state
performTransitionLogFrom(old_state, ev) ==
    LET new_state == ev.to_state
        t == findTransition(old_state, ev.event_name)
    IN  (IF config.states[old_state].on_exit_callback # ""
         THEN callStateCallback(old_state, "on_exit", old_state, TRUE)
         ELSE << >>)
        \o NotifyObservers("onStateExit", old_state, NoEvent, old_state, TRUE)
        \o (IF t # 0 /\ config.transitions[t].actions # << >>
            THEN executeTransitionActions(config.transitions[t].actions,
                                          old_state, TRUE)
            ELSE << >>)
        \o (IF t # 0 /\ config.transitions[t].transition_callback # ""
            THEN callTransitionCallback(old_state, new_state, ev, old_state, TRUE)
            ELSE << >>)
        \o << Entry("set_current_state", new_state, 0, NoEvent, old_state, TRUE) >>
        \o (IF hasStateCallback(new_state, "on_enter")
            THEN callStateCallback(new_state, "on_enter", new_state, TRUE)
            ELSE << >>)
        \o executeStateActions(new_state, new_state, TRUE)
        \o NotifyObservers("onStateEnter", new_state, NoEvent, new_state, TRUE)
        \o NotifyObservers("onTransition", ev.event_name, ev, new_state, TRUE)

\* triggerEvent called while the machine is Running in cur: the state it
\* leaves the machine in and the hooks it invokes
triggerEventFrom(cur, event_name) ==
    LET t == findTransition(cur, event_name)
    IN  IF t = 0 THEN [current_state |-> cur, log |-> << >>]
        ELSE LET tr == config.transitions[t]
                 guarded == tr.guard_callback # ""
                 guardLog ==
                     IF guarded
                     THEN callGuardLog(tr.from_state, tr.to_state, event_name,
                                       cur, TRUE)
                     ELSE << >>
                 ev == [event_name |-> event_name, from_state |-> cur,
                        to_state |-> tr.to_state]
             IN  IF guarded /\ ~evaluateGuard(tr.from_state, tr.to_state, event_name)
                 THEN [current_state |-> cur, log |-> guardLog]
                 ELSE [current_state |-> tr.to_state,
                       log |-> guardLog \o performTransitionLogFrom(cur, ev)]

\* the operation with the nested call spliced in where the observer makes it
Reentered(r) ==
    LET at == {i \in DOMAIN r.log :
                  /\ r.log[i].kind = "onStateEnter"
                  /\ r.log[i].obs = ReentrantObserver
                  /\ r.log[i].key = "active"}
        p == CHOOSE i \in at : \A j \in at : i <= j
        nested == triggerEventFrom("active", "back")
    IN  IF at = {} THEN r
        ELSE [r EXCEPT
                !.current_state = nested.current_state,
                !.log = SubSeq(r.log, 1, p)
                        \o nested.log
                        \o [i \in 1..(Len(r.log) - p) |->
                               [r.log[p + i] EXCEPT
                                   !.cur = nested.current_state]]]

Reentrant_triggerEvent ==
    \E event_name \in EventNames :
        /\ Apply("triggerEvent", event_name,
                 Reentered(triggerEventResult(event_name)))
        /\ UNCHANGED <<config, initial_state, observers, error_handler, registryVars>>

Reentrant_registerStateObserver ==
    /\ observers' =
          IF \E i \in 1..Len(observers) : observers[i] = ReentrantObserver
          THEN observers
          ELSE Append(observers, ReentrantObserver)
    /\ Setup
    /\ UNCHANGED <<config, error_handler, registryVars>>

-----------------------------------------------------------------------------
(* Scenario B driven through StateMachine: the guard registration, the     *)
(* events and the writes of health                                         *)

GameEvents == {"player_died", "respawn"}
HealthValues == {100, 50, 0, -10}

Game_registerGuard ==
    \E callback \in {"gHealth", NullCallable} :
        /\ guards' =
              IF callback = NullCallable THEN guards
              ELSE MapPut(guards,
                          makeGuardKey("playing", "game_over", "player_died"),
                          callback)
        /\ Setup
        /\ UNCHANGED <<config, observers, error_handler, state_callbacks,
                       transition_callbacks, actions>>

Game_triggerEvent ==
    \E event_name \in GameEvents :
        /\ Apply("triggerEvent", event_name, triggerEventResult(event_name))
        /\ UNCHANGED <<config, initial_state, observers, error_handler, registryVars>>

Game_setVariable ==
    \E value \in HealthValues :
        /\ IF current_state # ""
           THEN /\ state_variables' =
                      setStateVariable(state_variables, current_state,
                                       "health", value)
                /\ UNCHANGED global_variables
           ELSE /\ global_variables' =
                      setGlobalVariable(global_variables, "health", value)
                /\ UNCHANGED state_variables
        /\ log' = << >>
        /\ lastOp' = VarOpRecord("setVariable", "health",
                                 Ok(current_state, started, << >>), << value >>)
        /\ UNCHANGED <<config, machineVars, observers, error_handler,
                       registryVars, history, held, lockVars, dispatcherVars,
                       queueVars>>

-----------------------------------------------------------------------------
(* VariableManager driven directly.  Every operation takes the store's     *)
(* mutex for its whole body, so each is one step.  getGlobalVariables and  *)
(* getStateVariables return a const reference: `held` records what the     *)
(* reference refers to and whether that object still exists.               *)

StoreStates == {"idle", "active"}

\* the local map of state `s`, empty if the state has none
LocalScope(s) ==
    IF s \in DOMAIN state_variables THEN state_variables[s] ELSE NoVariables

\* std::map::erase(key)
MapErase(m, k) == [x \in DOMAIN m \ {k} |-> m[x]]

\* mutant: the name is erased from the state's scope and the global scope
removeVariable_bothTiers(globals, locals, state_name, name) ==
    [globals |-> MapErase(globals, name),
     locals |-> IF state_name \in DOMAIN locals
                THEN MapPut(locals, state_name, MapErase(locals[state_name], name))
                ELSE locals,
     returned |-> \/ name \in DOMAIN globals
                  \/ /\ state_name \in DOMAIN locals
                     /\ name \in DOMAIN locals[state_name]]

\* VariableManager::removeVariable: erase the local binding if there is
\* one, otherwise the global one; the new maps and the value returned
removeVariable(globals, locals, state_name, name) ==
    IF state_name \in DOMAIN locals /\ name \in DOMAIN locals[state_name]
    THEN [globals |-> globals,
          locals |-> MapPut(locals, state_name, MapErase(locals[state_name], name)),
          returned |-> TRUE]
    ELSE [globals |-> MapErase(globals, name), locals |-> locals,
          returned |-> name \in DOMAIN globals]

\* mutant: bindings the target already has are kept (std::map::insert)
copyStateVariables_keepExisting(locals, from_state, to_state) ==
    IF from_state \in DOMAIN locals
    THEN LET old == IF to_state \in DOMAIN locals THEN locals[to_state]
                    ELSE NoVariables
         IN  MapPut(locals, to_state,
                    [n \in DOMAIN old \cup DOMAIN locals[from_state] |->
                        IF n \in DOMAIN old THEN old[n]
                        ELSE locals[from_state][n]])
    ELSE locals

\* VariableManager::copyStateVariables: state_variables[to] = the map of from
copyStateVariables(locals, from_state, to_state) ==
    IF from_state \in DOMAIN locals
    THEN MapPut(locals, to_state, locals[from_state])
    ELSE locals

StoreOpRecord(op, state_name, name, value) ==
    [op |-> op, arg |-> name, state |-> state_name, result |-> "ok",
     error |-> "", pre_current_state |-> current_state, pre_started |-> started,
     value |-> value]

\* everything a VariableManager operation leaves alone besides the store
\* and the reference the caller holds
StoreFrame ==
    /\ log' = << >>
    /\ UNCHANGED <<config, machineVars, observers, error_handler, registryVars,
                   history, lockVars, dispatcherVars, queueVars>>

\* the reference held by the caller after the maps of `destroyed` states
\* were destroyed: it dangles if it refers to one of them
AfterDestroying(destroyed) ==
    IF held # << >> /\ held.target = "state" /\ held.state \in destroyed
    THEN [held EXCEPT !.alive = FALSE]
    ELSE held

VariableManager_setGlobalVariable ==
    \E name \in VariableNames, value \in VariableValues :
        /\ global_variables' = setGlobalVariable(global_variables, name, value)
        /\ lastOp' = StoreOpRecord("setGlobalVariable", "", name, << value >>)
        /\ StoreFrame
        /\ UNCHANGED <<state_variables, held>>

VariableManager_setStateVariable ==
    \E state_name \in StoreStates, name \in VariableNames,
       value \in VariableValues :
        /\ state_variables' =
              setStateVariable(state_variables, state_name, name, value)
        /\ lastOp' = StoreOpRecord("setStateVariable", state_name, name,
                                   << value >>)
        /\ StoreFrame
        /\ UNCHANGED <<global_variables, held>>

VariableManager_removeVariable ==
    \E state_name \in StoreStates, name \in VariableNames :
        LET r == removeVariable(global_variables, state_variables, state_name, name)
        IN  /\ global_variables' = r.globals
            /\ state_variables' = r.locals
            /\ lastOp' = StoreOpRecord("removeVariable", state_name, name,
                                       << r.returned >>)
            /\ StoreFrame
            /\ UNCHANGED held

\* the argument recorded is the source state, the state the target
VariableManager_copyStateVariables ==
    \E from_state \in StoreStates, to_state \in StoreStates :
        /\ state_variables' =
              copyStateVariables(state_variables, from_state, to_state)
        /\ lastOp' = StoreOpRecord("copyStateVariables", to_state, from_state,
                                   << >>)
        /\ StoreFrame
        /\ UNCHANGED <<global_variables, held>>

\* VariableManager::clear: both maps are emptied, every state's map is
\* destroyed
VariableManager_clear ==
    /\ global_variables' = NoVariables
    /\ state_variables' = [st \in {} |-> NoVariables]
    /\ held' = AfterDestroying(DOMAIN state_variables)
    /\ lastOp' = StoreOpRecord("clear", "", "", << >>)
    /\ StoreFrame

\* VariableManager::clearStateVariables: state_variables.erase(state_name)
VariableManager_clearStateVariables ==
    \E state_name \in StoreStates :
        /\ state_variables' = MapErase(state_variables, state_name)
        /\ held' = AfterDestroying({state_name} \cap DOMAIN state_variables)
        /\ lastOp' = StoreOpRecord("clearStateVariables", state_name, "", << >>)
        /\ StoreFrame
        /\ UNCHANGED global_variables

\* VariableManager::getGlobalVariables: a reference to the member map
VariableManager_getGlobalVariables ==
    /\ held' = [target |-> "global", state |-> "", alive |-> TRUE]
    /\ lastOp' = StoreOpRecord("getGlobalVariables", "", "",
                               << global_variables >>)
    /\ StoreFrame
    /\ UNCHANGED storeVars

\* VariableManager::getStateVariables: a reference to the state's map, or
\* to the function's static empty map when the state has none
VariableManager_getStateVariables ==
    \E state_name \in StoreStates :
        /\ held' = IF state_name \in DOMAIN state_variables
                   THEN [target |-> "state", state |-> state_name, alive |-> TRUE]
                   ELSE [target |-> "empty_map", state |-> "", alive |-> TRUE]
        /\ lastOp' = StoreOpRecord("getStateVariables", state_name, "",
                                   << LocalScope(state_name) >>)
        /\ StoreFrame
        /\ UNCHANGED storeVars

\* the map a live reference refers to
Referent ==
    CASE held.target = "global" -> global_variables
      [] held.target = "state" -> state_variables[held.state]
      [] OTHER -> NoVariables

\* the maps a read through a dangling reference can yield
AnyMap ==
    UNION {[names -> VariableValues] : names \in SUBSET VariableNames}

\* The caller reads the map it was handed.  The store's mutex was released
\* when the get returned, so the read is made without it; through a
\* reference to a destroyed map it can yield anything.
ReadHeld ==
    /\ held # << >>
    /\ \E seen \in (IF held.alive THEN {Referent} ELSE AnyMap) :
          lastOp' = [StoreOpRecord("read", held.state, held.target, << seen >>)
                     EXCEPT !.result = IF held.alive THEN "ok" ELSE "undefined"]
    /\ StoreFrame
    /\ UNCHANGED <<storeVars, held>>

-----------------------------------------------------------------------------
(* CallbackRegistry driven directly: registration, invocation, existence   *)
(* queries and counts.  `history` keeps every registration call, including *)
(* those that pass an empty callable, as <<namespace, key, callable>>.     *)

\* at most this many registration calls are made
MaxRegistrations == 3

RegistryCallables == {"f", "g"}
RegistryGuardCallables == {"gTrue", "gFalse"}

\* mutant: an empty callable is stored like any other
registerCallback_noNullCheck(m, key, callback) == MapPut(m, key, callback)

\* the body shared by the four register functions: an empty callable is
\* ignored, anything else is assigned under the key
registerCallback(m, key, callback) ==
    IF callback = NullCallable THEN m ELSE MapPut(m, key, callback)

\* the callable an invocation under `key` runs: none or one
Invoked(m, key) == IF IsBound(m, key) THEN << m[key] >> ELSE << >>

RegistryOpRecord(op, key, value) ==
    [op |-> op, arg |-> key, result |-> "ok", error |-> "",
     pre_current_state |-> current_state, pre_started |-> started,
     value |-> value]

\* what every registration call leaves behind besides the binding
Registered(op, namespace, key, callback) ==
    /\ Len(history) < MaxRegistrations
    /\ history' = Append(history, <<namespace, key, callback>>)
    /\ log' = << >>
    /\ lastOp' = RegistryOpRecord(op, key, << >>)
    /\ UNCHANGED <<config, machineVars, observers, error_handler, storeVars,
                   held, lockVars, dispatcherVars, queueVars>>

\* an operation that only reads the registry
RegistryRead(op, key, value, calls) ==
    /\ log' = calls
    /\ lastOp' = RegistryOpRecord(op, key, value)
    /\ UNCHANGED <<config, machineVars, observers, error_handler, registryVars,
                   storeVars, history, held, lockVars, dispatcherVars, queueVars>>

StateCallbackKeys == {<<"idle", "on_enter">>, <<"idle", "on_exit">>}
TransitionCallbackKeys == {<<"idle", "active">>}
GuardKeys == {<<"idle", "active", "go">>}
ActionKeys == {"a1"}

CallbackRegistry_registerStateCallback ==
    \E k \in StateCallbackKeys, callback \in RegistryCallables \cup {NullCallable} :
        /\ state_callbacks' =
              registerCallback(state_callbacks, makeStateCallbackKey(k[1], k[2]),
                               callback)
        /\ Registered("registerStateCallback", "state",
                      makeStateCallbackKey(k[1], k[2]), callback)
        /\ UNCHANGED <<transition_callbacks, guards, actions>>

CallbackRegistry_registerTransitionCallback ==
    \E k \in TransitionCallbackKeys,
       callback \in RegistryCallables \cup {NullCallable} :
        /\ transition_callbacks' =
              registerCallback(transition_callbacks,
                               makeTransitionCallbackKey(k[1], k[2]), callback)
        /\ Registered("registerTransitionCallback", "transition",
                      makeTransitionCallbackKey(k[1], k[2]), callback)
        /\ UNCHANGED <<state_callbacks, guards, actions>>

CallbackRegistry_registerGuard ==
    \E k \in GuardKeys, callback \in RegistryGuardCallables \cup {NullCallable} :
        /\ guards' = registerCallback(guards, makeGuardKey(k[1], k[2], k[3]),
                                      callback)
        /\ Registered("registerGuard", "guard", makeGuardKey(k[1], k[2], k[3]),
                      callback)
        /\ UNCHANGED <<state_callbacks, transition_callbacks, actions>>

CallbackRegistry_registerAction ==
    \E name \in ActionKeys, callback \in RegistryCallables \cup {NullCallable} :
        /\ actions' = registerCallback(actions, name, callback)
        /\ Registered("registerAction", "action", name, callback)
        /\ UNCHANGED <<state_callbacks, transition_callbacks, guards>>

CallbackRegistry_callStateCallback ==
    \E k \in StateCallbackKeys :
        RegistryRead("callStateCallback", makeStateCallbackKey(k[1], k[2]),
                     Invoked(state_callbacks, makeStateCallbackKey(k[1], k[2])),
                     callStateCallback(k[1], k[2], current_state, started))

CallbackRegistry_callTransitionCallback ==
    \E k \in TransitionCallbackKeys :
        RegistryRead("callTransitionCallback", makeTransitionCallbackKey(k[1], k[2]),
                     Invoked(transition_callbacks,
                             makeTransitionCallbackKey(k[1], k[2])),
                     callTransitionCallback(k[1], k[2], NoEvent,
                                            current_state, started))

\* the value is the guard that ran followed by what callGuard returned
CallbackRegistry_callGuard ==
    \E k \in GuardKeys :
        RegistryRead("callGuard", makeGuardKey(k[1], k[2], k[3]),
                     Invoked(guards, makeGuardKey(k[1], k[2], k[3]))
                     \o << callGuard(k[1], k[2], k[3]) >>,
                     callGuardLog(k[1], k[2], k[3], current_state, started))

CallbackRegistry_callAction ==
    \E name \in ActionKeys :
        RegistryRead("callAction", name, Invoked(actions, name),
                     callAction(name, current_state, started))

\* hasStateCallback, hasTransitionCallback, hasGuard, hasAction
CallbackRegistry_has ==
    \/ \E k \in StateCallbackKeys :
          RegistryRead("hasStateCallback", makeStateCallbackKey(k[1], k[2]),
                       << hasStateCallback(k[1], k[2]) >>, << >>)
    \/ \E k \in TransitionCallbackKeys :
          RegistryRead("hasTransitionCallback",
                       makeTransitionCallbackKey(k[1], k[2]),
                       << IsBound(transition_callbacks,
                                  makeTransitionCallbackKey(k[1], k[2])) >>, << >>)
    \/ \E k \in GuardKeys :
          RegistryRead("hasGuard", makeGuardKey(k[1], k[2], k[3]),
                       << IsBound(guards, makeGuardKey(k[1], k[2], k[3])) >>,
                       << >>)
    \/ \E name \in ActionKeys :
          RegistryRead("hasAction", name, << IsBound(actions, name) >>, << >>)

\* getStateCallbackCount, getTransitionCallbackCount, getGuardCount,
\* getActionCount: the size of the namespace's map
CallbackRegistry_count ==
    \/ RegistryRead("getStateCallbackCount", "",
                    << Cardinality(DOMAIN state_callbacks) >>, << >>)
    \/ RegistryRead("getTransitionCallbackCount", "",
                    << Cardinality(DOMAIN transition_callbacks) >>, << >>)
    \/ RegistryRead("getGuardCount", "", << Cardinality(DOMAIN guards) >>, << >>)
    \/ RegistryRead("getActionCount", "", << Cardinality(DOMAIN actions) >>, << >>)

-----------------------------------------------------------------------------
(* The CallbackRegistry mutex.  Every public function of the registry      *)
(* holds a std::lock_guard on Impl::mutex for its whole body, the call     *)
(* functions while the callback runs.  A call is split into the steps      *)
(* other threads can interleave with; a thread that finds the mutex taken  *)
(* by another thread simply cannot enter yet.                              *)

\* what a registered action does when it runs: "f" nothing else, "fVar"
\* writes a variable through the VariableManager, "fReg" registers on the
\* registry that is invoking it, "fCall" invokes an action on it
ActionBehaviours == {"f", "fVar", "fReg", "fCall"}
ReentrantBehaviours == {"fReg", "fCall"}

LockedOps ==
    {"clear", "registerStateCallback", "registerTransitionCallback",
     "registerGuard", "registerAction", "callAction", "getCounts"}

Inside(op, at, fn) == [op |-> op, at |-> at, fn |-> fn]

LockOpRecord(op, t, result, value) ==
    [op |-> op, arg |-> "", result |-> result, error |-> "",
     pre_current_state |-> current_state, pre_started |-> started,
     value |-> value, thread |-> t]

\* mutant: clear() does not take the mutex
CanEnter_clearUnlocked(t, op) == op = "clear" \/ registry_mutex = 0

\* std::lock_guard<std::mutex> lock(impl_->mutex) at the top of a function
\* called from outside a callback: the thread enters when the mutex is free
CanEnter(t, op) == registry_mutex = 0

\* mutant: the mutex is recursive, the owner locks it again and goes on
ReentryOutcomes_recursiveMutex(t) == {"acquired"}

\* the same lock_guard reached by the thread that already owns the mutex:
\* std::mutex::lock by the owner is undefined behaviour; the outcomes are
\* blocking forever and, where the library detects it, std::system_error
ReentryOutcomes(t) == {"blocked", "unwinding"}

\* what a step inside the registry leaves alone
LockFrame ==
    /\ log' = << >>
    /\ UNCHANGED <<config, machineVars, observers, error_handler, state_variables,
                   history, held, dispatcherVars, queueVars>>

\* a thread calls one of the registry's functions and takes the mutex
Enter ==
    \E t \in Threads, op \in LockedOps :
        /\ thread[t] = Idle
        /\ CanEnter(t, op)
        /\ registry_mutex' = t
        /\ thread' = [thread EXCEPT ![t] = Inside(op, "locked", "")]
        /\ LockFrame
        /\ UNCHANGED <<registryVars, global_variables, lastOp>>

\* CallbackRegistry::Impl::clear: the four maps are cleared one by one
ClearStep ==
    \E t \in Threads :
        /\ thread[t].op = "clear"
        /\ \/ /\ thread[t].at = "locked"
              /\ state_callbacks' = EmptyMap
              /\ thread' = [thread EXCEPT ![t].at = "cleared1"]
              /\ UNCHANGED <<transition_callbacks, guards, actions>>
           \/ /\ thread[t].at = "cleared1"
              /\ transition_callbacks' = EmptyMap
              /\ thread' = [thread EXCEPT ![t].at = "cleared2"]
              /\ UNCHANGED <<state_callbacks, guards, actions>>
           \/ /\ thread[t].at = "cleared2"
              /\ guards' = EmptyMap
              /\ thread' = [thread EXCEPT ![t].at = "cleared3"]
              /\ UNCHANGED <<state_callbacks, transition_callbacks, actions>>
           \/ /\ thread[t].at = "cleared3"
              /\ actions' = EmptyMap
              /\ thread' = [thread EXCEPT ![t].at = "done"]
              /\ UNCHANGED <<state_callbacks, transition_callbacks, guards>>
        /\ LockFrame
        /\ UNCHANGED <<registry_mutex, global_variables, lastOp>>

\* the body of the four register functions, one key per namespace
RegisterBody ==
    \E t \in Threads :
        /\ thread[t].at = "locked"
        /\ \/ /\ thread[t].op = "registerStateCallback"
              /\ state_callbacks' =
                    registerCallback(state_callbacks,
                                     makeStateCallbackKey("idle", "on_enter"), "f")
              /\ UNCHANGED <<transition_callbacks, guards, actions>>
           \/ /\ thread[t].op = "registerTransitionCallback"
              /\ transition_callbacks' =
                    registerCallback(transition_callbacks,
                                     makeTransitionCallbackKey("idle", "active"),
                                     "f")
              /\ UNCHANGED <<state_callbacks, guards, actions>>
           \/ /\ thread[t].op = "registerGuard"
              /\ guards' = registerCallback(guards,
                                            makeGuardKey("idle", "active", "go"),
                                            "gTrue")
              /\ UNCHANGED <<state_callbacks, transition_callbacks, actions>>
           \/ /\ thread[t].op = "registerAction"
              /\ \E callback \in ActionBehaviours :
                    actions' = registerCallback(actions, "a1", callback)
              /\ UNCHANGED <<state_callbacks, transition_callbacks, guards>>
        /\ thread' = [thread EXCEPT ![t].at = "done"]
        /\ LockFrame
        /\ UNCHANGED <<registry_mutex, global_variables, lastOp>>

\* the four count functions, read in one critical section
CountBody ==
    \E t \in Threads :
        /\ thread[t].op = "getCounts"
        /\ thread[t].at = "locked"
        /\ thread' = [thread EXCEPT ![t] =
              Inside("getCounts", "done",
                     << Cardinality(DOMAIN state_callbacks),
                        Cardinality(DOMAIN transition_callbacks),
                        Cardinality(DOMAIN guards),
                        Cardinality(DOMAIN actions) >>)]
        /\ LockFrame
        /\ UNCHANGED <<registry_mutex, registryVars, global_variables, lastOp>>

\* CallbackRegistry::callAction: find the action and, if bound, invoke it
\* (the lock_guard is still in scope)
CallBody ==
    \E t \in Threads :
        /\ thread[t].op = "callAction"
        /\ thread[t].at = "locked"
        /\ thread' = [thread EXCEPT ![t] =
              IF IsBound(actions, "a1")
              THEN Inside("callAction", "in_callback", actions["a1"])
              ELSE Inside("callAction", "done", "")]
        /\ LockFrame
        /\ UNCHANGED <<registry_mutex, registryVars, global_variables, lastOp>>

\* the callback's own code: it returns, or writes a variable (the
\* VariableManager has a mutex of its own) and returns, or calls into the
\* registry that is invoking it
CallbackRuns ==
    \E t \in Threads :
        /\ thread[t].at = "in_callback"
        /\ \/ /\ thread[t].fn = "f"
              /\ thread' = [thread EXCEPT ![t].at = "done"]
              /\ UNCHANGED global_variables
           \/ /\ thread[t].fn = "fVar"
              /\ global_variables' = setGlobalVariable(global_variables, "y", 1)
              /\ thread' = [thread EXCEPT ![t].at = "done"]
           \/ /\ thread[t].fn \in ReentrantBehaviours
              /\ thread' = [thread EXCEPT ![t].at = "reentering"]
              /\ UNCHANGED global_variables
        /\ LockFrame
        /\ UNCHANGED <<registry_mutex, registryVars, lastOp>>

\* the nested call reaches its lock_guard while the thread owns the mutex
Reenter ==
    \E t \in Threads :
        /\ thread[t].at = "reentering"
        /\ \E outcome \in ReentryOutcomes(t) :
              thread' = [thread EXCEPT ![t].at = outcome]
        /\ LockFrame
        /\ UNCHANGED <<registry_mutex, registryVars, global_variables, lastOp>>

\* std::system_error leaves the callback and callAction; the outer
\* lock_guard unlocks on the way out
Unwind ==
    \E t \in Threads :
        /\ thread[t].at = "unwinding"
        /\ registry_mutex' = 0
        /\ thread' = [thread EXCEPT ![t] = Idle]
        /\ lastOp' = LockOpRecord(thread[t].op, t, "system_error", thread[t].fn)
        /\ LockFrame
        /\ UNCHANGED <<registryVars, global_variables>>

\* the function returns: the lock_guard goes out of scope
Release ==
    \E t \in Threads :
        /\ thread[t].at = "done"
        /\ registry_mutex' = 0
        /\ thread' = [thread EXCEPT ![t] = Idle]
        /\ lastOp' = LockOpRecord(thread[t].op, t, "ok", thread[t].fn)
        /\ LockFrame
        /\ UNCHANGED <<registryVars, global_variables>>

-----------------------------------------------------------------------------
(* EventDispatcher: the queue, the running flag, and one thread inside     *)
(* waitForEmptyQueue.  The functions that hold queue_mutex for their whole *)
(* body are single steps, enabled when the mutex is free; start() and      *)
(* stop() take no mutex; the waiter is split at the points where the       *)
(* others can run: before it locks, between its evaluation of the          *)
(* predicate and its blocking on the condition variable, while blocked,    *)
(* and between its wake-up and its re-locking.                             *)

MaxQueue == 2

QueuedEvents == {"go", "back"}

WaiterThread == 1

\* [this]() { return event_queue.empty() || !running; }
waitPredicate == event_queue = << >> \/ ~running

\* queue_cv.notify_one / notify_all with at most one thread waiting: a
\* thread blocked on the condition variable is woken, anything else is
\* unaffected
notified(at) == IF at = "blocked" THEN "woken" ELSE at

DispatcherOpRecord(op, arg, result) ==
    [op |-> op, arg |-> arg, result |-> result, error |-> "",
     pre_current_state |-> current_state, pre_started |-> started]

DispatcherFrame ==
    /\ log' = << >>
    /\ UNCHANGED <<config, machineVars, observers, error_handler, registryVars,
                   storeVars, history, held, lockVars, queueVars>>

dispatchEvent ==
    \E event_name \in QueuedEvents :
        /\ queue_mutex = 0
        /\ Len(event_queue) < MaxQueue
        /\ event_queue' = Append(event_queue, event_name)
        /\ waiter' = notified(waiter)
        /\ lastOp' = DispatcherOpRecord("dispatchEvent", event_name, "ok")
        /\ DispatcherFrame
        /\ UNCHANGED <<running, queue_mutex>>

\* an empty queue returns false; otherwise the front event is popped under
\* the mutex and handed to the handler; no notification is sent
processOneEvent ==
    /\ queue_mutex = 0
    /\ IF event_queue = << >>
       THEN /\ lastOp' = DispatcherOpRecord("processOneEvent", "", "false")
            /\ UNCHANGED event_queue
       ELSE /\ event_queue' = Tail(event_queue)
            /\ lastOp' = DispatcherOpRecord("processOneEvent",
                                            Head(event_queue), "true")
    /\ DispatcherFrame
    /\ UNCHANGED <<running, queue_mutex, waiter>>

\* while (processOneEvent()) {}: as run with no dispatch in between
processEvents ==
    /\ queue_mutex = 0
    /\ event_queue' = << >>
    /\ lastOp' = DispatcherOpRecord("processEvents", "", "ok")
    /\ DispatcherFrame
    /\ UNCHANGED <<running, queue_mutex, waiter>>

\* Impl::clear under the mutex; no notification is sent
clearEventQueue ==
    /\ queue_mutex = 0
    /\ event_queue' = << >>
    /\ lastOp' = DispatcherOpRecord("clearEventQueue", "", "ok")
    /\ DispatcherFrame
    /\ UNCHANGED <<running, queue_mutex, waiter>>

EventDispatcher_start ==
    /\ running' = TRUE
    /\ lastOp' = DispatcherOpRecord("start", "", "ok")
    /\ DispatcherFrame
    /\ UNCHANGED <<event_queue, queue_mutex, waiter>>

\* running = false; queue_cv.notify_all(); neither under queue_mutex
EventDispatcher_stop ==
    /\ running' = FALSE
    /\ waiter' = notified(waiter)
    /\ lastOp' = DispatcherOpRecord("stop", "", "ok")
    /\ DispatcherFrame
    /\ UNCHANGED <<event_queue, queue_mutex>>

\* waitForEmptyQueue is called: std::unique_lock lock(queue_mutex)
WaiterLocks ==
    /\ waiter \in {"outside", "returned"}
    /\ queue_mutex = 0
    /\ queue_mutex' = WaiterThread
    /\ waiter' = "locked"
    /\ DispatcherFrame
    /\ UNCHANGED <<event_queue, running, lastOp>>

\* wait(lock, pred) evaluates pred: true returns (the lock is released),
\* false goes on to wait(lock)
WaiterChecks ==
    /\ waiter \in {"locked", "relocked"}
    /\ IF waitPredicate
       THEN /\ waiter' = "returned"
            /\ queue_mutex' = 0
       ELSE /\ waiter' = "checked"
            /\ UNCHANGED queue_mutex
    /\ DispatcherFrame
    /\ UNCHANGED <<event_queue, running, lastOp>>

\* wait(lock): the mutex is released and the thread blocks, atomically
WaiterBlocks ==
    /\ waiter = "checked"
    /\ waiter' = "blocked"
    /\ queue_mutex' = 0
    /\ DispatcherFrame
    /\ UNCHANGED <<event_queue, running, lastOp>>

\* a woken thread takes the mutex again, wait(lock) returns into the loop
\* of wait(lock, pred) and pred is evaluated again
WaiterRelocks ==
    /\ waiter = "woken"
    /\ queue_mutex = 0
    /\ queue_mutex' = WaiterThread
    /\ waiter' = "relocked"
    /\ DispatcherFrame
    /\ UNCHANGED <<event_queue, running, lastOp>>

\* condition_variable::wait may return without a notification
SpuriousWakeup ==
    /\ waiter = "blocked"
    /\ waiter' = "woken"
    /\ DispatcherFrame
    /\ UNCHANGED <<event_queue, running, queue_mutex, lastOp>>

-----------------------------------------------------------------------------
(* EventDispatcher: producers and one consuming thread.  dispatchEvent,    *)
(* clearEventQueue and setEventHandler hold queue_mutex for their whole    *)
(* body and are single steps.  processOneEvent is split where it releases  *)
(* the mutex: it locks, pops under the mutex, unlocks, and only then calls *)
(* the handler; processEvents repeats it until it returns false.  An event *)
(* is its name and the payload that tells two dispatches apart.            *)

\* the producers dispatch at most this many events
MaxDispatched == 2

ConsumerThread == 2

\* what the handler does with an event: "h" nothing else, "hDispatch"
\* dispatches a follow-up "back" for every "go" it is given, "hSize" asks
\* for the queue size, "hClear" clears the queue
HandlerBehaviours == {"h", "hDispatch", "hSize", "hClear"}

QueuedEvent(event_name, payload) == [event_name |-> event_name, payload |-> payload]

Removal(event, how) == [event |-> event, how |-> how]

\* event_queue.emplace(event_name, event)
Enqueued(d, event_name) ==
    [d EXCEPT !.enqueued =
        Append(@, QueuedEvent(event_name, Len(d.enqueued) + 1))]

\* while (!event_queue.empty()) event_queue.pop()
Cleared(d, q) ==
    [d EXCEPT !.removed = @ \o [i \in 1..Len(q) |-> Removal(q[i], "cleared")]]

\* mutant: the newest event is taken
Dequeue_newestFirst(q) ==
    [event |-> q[Len(q)], rest |-> SubSeq(q, 1, Len(q) - 1)]

\* event_queue.front() and event_queue.pop()
Dequeue(q) == [event |-> Head(q), rest |-> Tail(q)]

\* mutant: the mutex is still held when the handler is called
AfterPop_stillLocked(t) == t

\* lock.unlock() after the pop: the owner of queue_mutex from then on
AfterPop(t) == 0

\* the consuming thread inside a call: the event it holds, the handler it
\* is running, and what the queue and the counts were when it called
Consuming(op, at, event, fn, entry) ==
    [op |-> op, at |-> at, event |-> event, fn |-> fn, entry |-> entry]

QueueOpRecord(op, arg, result, entry) ==
    [op |-> op, arg |-> arg, result |-> result, error |-> "",
     pre_current_state |-> current_state, pre_started |-> started,
     entry |-> entry]

NoEntry == [queued |-> 0, enqueued |-> 0, removed |-> 0, handled |-> 0]

QueueFrame ==
    /\ log' = << >>
    /\ UNCHANGED <<config, machineVars, observers, error_handler, registryVars,
                   storeVars, history, held, lockVars, running, waiter>>

\* only called while no thread is inside processOneEvent: the handler is
\* read there without the mutex
EventDispatcher_setEventHandler ==
    \E handler \in HandlerBehaviours \cup {NullCallable} :
        /\ consumer = NotConsuming
        /\ queue_mutex = 0
        /\ event_handler' = handler
        /\ lastOp' = QueueOpRecord("setEventHandler", handler, "ok", NoEntry)
        /\ QueueFrame
        /\ UNCHANGED <<event_queue, queue_mutex, consumer, delivery>>

\* dispatchEvent called by a producer thread
Producer_dispatchEvent ==
    \E event_name \in QueuedEvents :
        /\ queue_mutex = 0
        /\ Len(delivery.enqueued) < MaxDispatched
        /\ event_queue' =
              Append(event_queue,
                     QueuedEvent(event_name, Len(delivery.enqueued) + 1))
        /\ delivery' = Enqueued(delivery, event_name)
        /\ lastOp' = QueueOpRecord("dispatchEvent", event_name, "ok", NoEntry)
        /\ QueueFrame
        /\ UNCHANGED <<queue_mutex, event_handler, consumer>>

\* clearEventQueue called by another thread
Producer_clearEventQueue ==
    /\ queue_mutex = 0
    /\ event_queue' = << >>
    /\ delivery' = Cleared(delivery, event_queue)
    /\ lastOp' = QueueOpRecord("clearEventQueue", "", "ok", NoEntry)
    /\ QueueFrame
    /\ UNCHANGED <<queue_mutex, event_handler, consumer>>

\* the consuming thread calls processOneEvent or processEvents
ConsumerCalls ==
    \E op \in {"processOneEvent", "processEvents"} :
        /\ consumer = NotConsuming
        /\ consumer' =
              Consuming(op, "entering", << >>, NullCallable,
                        [queued |-> Len(event_queue),
                         enqueued |-> Len(delivery.enqueued),
                         removed |-> Len(delivery.removed),
                         handled |-> Len(delivery.handled)])
        /\ QueueFrame
        /\ UNCHANGED <<event_queue, queue_mutex, event_handler, delivery, lastOp>>

\* std::unique_lock<std::mutex> lock(impl_->queue_mutex)
ConsumerLocks ==
    /\ consumer.at = "entering"
    /\ queue_mutex = 0
    /\ queue_mutex' = ConsumerThread
    /\ consumer' = [consumer EXCEPT !.at = "locked"]
    /\ QueueFrame
    /\ UNCHANGED <<event_queue, event_handler, delivery, lastOp>>

\* an empty queue: processOneEvent returns false, which also ends the loop
\* of processEvents; otherwise the front event is popped and the mutex
\* released
ConsumerTakes ==
    /\ consumer.at = "locked"
    /\ IF event_queue = << >>
       THEN /\ queue_mutex' = 0
            /\ consumer' = NotConsuming
            /\ lastOp' = QueueOpRecord(consumer.op, "",
                                       IF consumer.op = "processOneEvent"
                                       THEN "false" ELSE "ok",
                                       consumer.entry)
            /\ UNCHANGED <<event_queue, delivery>>
       ELSE /\ event_queue' = Dequeue(event_queue).rest
            /\ delivery' =
                  [delivery EXCEPT !.removed =
                      Append(@, Removal(Dequeue(event_queue).event, "popped"))]
            /\ queue_mutex' = AfterPop(ConsumerThread)
            /\ consumer' = [consumer EXCEPT !.at = "popped",
                                            !.event = << Dequeue(event_queue).event >>]
            /\ UNCHANGED lastOp
    /\ QueueFrame
    /\ UNCHANGED event_handler

\* processOneEvent returns true; processEvents goes round its loop
AfterHandler(c) ==
    IF c.op = "processOneEvent" THEN NotConsuming
    ELSE Consuming(c.op, "entering", << >>, NullCallable, c.entry)

ReturnsTrue(c) ==
    IF c.op = "processOneEvent"
    THEN lastOp' = QueueOpRecord(c.op, "", "true", c.entry)
    ELSE UNCHANGED lastOp

\* if (impl_->event_handler) impl_->event_handler(name, event)
ConsumerInvokes ==
    /\ consumer.at = "popped"
    /\ delivery' = [delivery EXCEPT !.handled =
                        Append(@, [event |-> consumer.event[1],
                                   handler |-> event_handler])]
    /\ IF event_handler # NullCallable
       THEN /\ consumer' = [consumer EXCEPT !.at = "in_handler",
                                            !.fn = event_handler]
            /\ UNCHANGED lastOp
       ELSE /\ consumer' = AfterHandler(consumer)
            /\ ReturnsTrue(consumer)
    /\ QueueFrame
    /\ UNCHANGED <<event_queue, queue_mutex, event_handler>>

\* the handler's own code; its calls into the dispatcher take queue_mutex
HandlerRuns ==
    /\ consumer.at = "in_handler"
    /\ \/ /\ \/ consumer.fn = "h"
              \/ (consumer.fn = "hDispatch"
                  /\ consumer.event[1].event_name # "go")
          /\ UNCHANGED <<event_queue, delivery>>
       \/ /\ consumer.fn = "hDispatch"
          /\ consumer.event[1].event_name = "go"
          /\ queue_mutex = 0
          /\ event_queue' =
                Append(event_queue,
                       QueuedEvent("back", Len(delivery.enqueued) + 1))
          /\ delivery' = Enqueued(delivery, "back")
       \/ /\ consumer.fn = "hSize"
          /\ queue_mutex = 0
          /\ UNCHANGED <<event_queue, delivery>>
       \/ /\ consumer.fn = "hClear"
          /\ queue_mutex = 0
          /\ event_queue' = << >>
          /\ delivery' = Cleared(delivery, event_queue)
    /\ consumer' = AfterHandler(consumer)
    /\ ReturnsTrue(consumer)
    /\ QueueFrame
    /\ UNCHANGED <<queue_mutex, event_handler>>

-----------------------------------------------------------------------------
(* StateMachine(yaml_content, true): a machine exists only for a           *)
(* configuration that validateConfig accepts.                              *)

\* the constructor's copy of the configured state variables: one
\* setStateVariable per variable, so a state without variables gets no map
ConfiguredStateVariables ==
    [s \in {t \in DOMAIN config.states : DOMAIN config.states[t].variables # {}}
        |-> config.states[s].variables]

Init ==
    /\ \E raw \in RawConfigs :
          /\ validateConfig(raw)
          /\ config = loadFromString(raw)
    /\ current_state = ""
    /\ initial_state = config.initial_state
    /\ started = FALSE
    /\ observers = << >>
    /\ error_handler = NullCallable
    /\ state_callbacks = EmptyMap
    /\ transition_callbacks = EmptyMap
    /\ guards = EmptyMap
    /\ actions = EmptyMap
    /\ global_variables = config.global_variables
    /\ state_variables = ConfiguredStateVariables
    /\ history = << >>
    /\ held = << >>
    /\ registry_mutex = 0
    /\ thread = [t \in Threads |-> Idle]
    /\ event_queue = << >>
    /\ running = FALSE
    /\ queue_mutex = 0
    /\ waiter = "outside"
    /\ event_handler = NullCallable
    /\ consumer = NotConsuming
    /\ delivery = NothingDelivered
    /\ log = << >>
    /\ lastOp = [op |-> "construct", arg |-> "", result |-> "ok", error |-> "",
                 pre_current_state |-> "", pre_started |-> FALSE]

Next ==
    \/ start
    \/ stop
    \/ reset
    \/ triggerEvent
    \/ registerStateCallback
    \/ registerTransitionCallback
    \/ registerGuard
    \/ registerAction
    \/ registerStateObserver
    \/ unregisterStateObserver
    \/ setErrorHandler

Spec == Init /\ [][Next]_vars

\* The machine with its variable store: the lifecycle, events (with the
\* guards they need), the error handler and the variable operations
NextVars ==
    \/ start
    \/ stop
    \/ reset
    \/ triggerEvent
    \/ registerGuard
    \/ setErrorHandler
    \/ setVariable
    \/ getVariable

SpecVars == Init /\ [][NextVars]_vars

\* The registry of a machine built from the main configuration, driven
\* through the CallbackRegistry interface alone
InitRegistry == Init /\ config = loadFromString(RawMain)

NextRegistry ==
    \/ CallbackRegistry_registerStateCallback
    \/ CallbackRegistry_registerTransitionCallback
    \/ CallbackRegistry_registerGuard
    \/ CallbackRegistry_registerAction
    \/ CallbackRegistry_callStateCallback
    \/ CallbackRegistry_callTransitionCallback
    \/ CallbackRegistry_callGuard
    \/ CallbackRegistry_callAction
    \/ CallbackRegistry_has
    \/ CallbackRegistry_count

SpecRegistry == InitRegistry /\ [][NextRegistry]_vars

\* The variable store of a machine built from the main configuration,
\* driven through the VariableManager interface alone
InitStore == Init /\ config = loadFromString(RawMain)

NextStore ==
    \/ VariableManager_setGlobalVariable
    \/ VariableManager_setStateVariable
    \/ VariableManager_removeVariable
    \/ VariableManager_copyStateVariables
    \/ VariableManager_clear
    \/ VariableManager_clearStateVariables
    \/ VariableManager_getGlobalVariables
    \/ VariableManager_getStateVariables
    \/ ReadHeld

SpecStore == InitStore /\ [][NextStore]_vars

-----------------------------------------------------------------------------
(* The registry driven with names that contain ':'.  An identity is the    *)
(* tuple of names a call passes; the key is what the registry makes of it. *)

StateIdentities == {<<"s:x", "on_enter">>, <<"s", "x:on_enter">>}
TransitionIdentities == {<<"a:b", "c">>, <<"a", "b:c">>}
GuardIdentities == {<<"a", "b:c", "e">>, <<"a", "b", "c:e">>}

Identity_registerStateCallback ==
    \E id \in StateIdentities, callback \in RegistryCallables :
        /\ state_callbacks' =
              registerCallback(state_callbacks,
                               makeStateCallbackKey(id[1], id[2]), callback)
        /\ Registered("registerStateCallback", "state", id, callback)
        /\ UNCHANGED <<transition_callbacks, guards, actions>>

Identity_registerTransitionCallback ==
    \E id \in TransitionIdentities, callback \in RegistryCallables :
        /\ transition_callbacks' =
              registerCallback(transition_callbacks,
                               makeTransitionCallbackKey(id[1], id[2]), callback)
        /\ Registered("registerTransitionCallback", "transition", id, callback)
        /\ UNCHANGED <<state_callbacks, guards, actions>>

Identity_registerGuard ==
    \E id \in GuardIdentities, callback \in RegistryGuardCallables :
        /\ guards' =
              registerCallback(guards, makeGuardKey(id[1], id[2], id[3]), callback)
        /\ Registered("registerGuard", "guard", id, callback)
        /\ UNCHANGED <<state_callbacks, transition_callbacks, actions>>

\* callStateCallback, callTransitionCallback, callGuard: the value is the
\* callable that ran, if any
Identity_call ==
    \/ \E id \in StateIdentities :
          RegistryRead("callStateCallback", id,
                       Invoked(state_callbacks, makeStateCallbackKey(id[1], id[2])),
                       callStateCallback(id[1], id[2], current_state, started))
    \/ \E id \in TransitionIdentities :
          RegistryRead("callTransitionCallback", id,
                       Invoked(transition_callbacks,
                               makeTransitionCallbackKey(id[1], id[2])),
                       callTransitionCallback(id[1], id[2], NoEvent,
                                              current_state, started))
    \/ \E id \in GuardIdentities :
          RegistryRead("callGuard", id,
                       Invoked(guards, makeGuardKey(id[1], id[2], id[3])),
                       callGuardLog(id[1], id[2], id[3], current_state, started))

\* hasStateCallback, hasTransitionCallback, hasGuard
Identity_has ==
    \/ \E id \in StateIdentities :
          RegistryRead("hasStateCallback", id,
                       << hasStateCallback(id[1], id[2]) >>, << >>)
    \/ \E id \in TransitionIdentities :
          RegistryRead("hasTransitionCallback", id,
                       << IsBound(transition_callbacks,
                                  makeTransitionCallbackKey(id[1], id[2])) >>,
                       << >>)
    \/ \E id \in GuardIdentities :
          RegistryRead("hasGuard", id,
                       << IsBound(guards, makeGuardKey(id[1], id[2], id[3])) >>,
                       << >>)

NextIdentity ==
    \/ Identity_registerStateCallback
    \/ Identity_registerTransitionCallback
    \/ Identity_registerGuard
    \/ Identity_call
    \/ Identity_has

SpecIdentity == InitRegistry /\ [][NextIdentity]_vars

\* The main configuration with hooks that may throw
NextThrowing ==
    \/ Unwinding_start
    \/ Unwinding_stop
    \/ Unwinding_reset
    \/ Unwinding_triggerEvent
    \/ Throwing_registerStateCallback
    \/ Throwing_registerAction
    \/ Throwing_registerStateObserver

SpecThrowing == InitStore /\ [][NextThrowing]_vars

\* The main configuration with an observer that re-enters triggerEvent
NextReentrant ==
    \/ start
    \/ stop
    \/ reset
    \/ Reentrant_triggerEvent
    \/ registerGuard
    \/ registerStateObserver
    \/ Reentrant_registerStateObserver

SpecReentrant == InitStore /\ [][NextReentrant]_vars

\* The main configuration with its store, guards and observers in use
NextFrame ==
    \/ start
    \/ stop
    \/ reset
    \/ triggerEvent
    \/ registerGuard
    \/ registerStateObserver
    \/ setVariable

SpecFrame == InitStore /\ [][NextFrame]_vars

\* The machine of scenario B
InitGame ==
    /\ validateConfig(RawGame)
    /\ config = loadFromString(RawGame)
    /\ current_state = ""
    /\ initial_state = config.initial_state
    /\ started = FALSE
    /\ observers = << >>
    /\ error_handler = NullCallable
    /\ state_callbacks = EmptyMap
    /\ transition_callbacks = EmptyMap
    /\ guards = EmptyMap
    /\ actions = EmptyMap
    /\ global_variables = config.global_variables
    /\ state_variables = ConfiguredStateVariables
    /\ history = << >>
    /\ held = << >>
    /\ registry_mutex = 0
    /\ thread = [t \in Threads |-> Idle]
    /\ event_queue = << >>
    /\ running = FALSE
    /\ queue_mutex = 0
    /\ waiter = "outside"
    /\ event_handler = NullCallable
    /\ consumer = NotConsuming
    /\ delivery = NothingDelivered
    /\ log = << >>
    /\ lastOp = [op |-> "construct", arg |-> "", result |-> "ok", error |-> "",
                 pre_current_state |-> "", pre_started |-> FALSE]

NextGame ==
    \/ start
    \/ stop
    \/ reset
    \/ Game_registerGuard
    \/ Game_triggerEvent
    \/ Game_setVariable

SpecGame == InitGame /\ [][NextGame]_vars

\* Two threads calling into the registry of one machine
NextLock ==
    \/ Enter
    \/ ClearStep
    \/ RegisterBody
    \/ CountBody
    \/ CallBody
    \/ CallbackRuns
    \/ Reenter
    \/ Unwind
    \/ Release

SpecLock == InitRegistry /\ [][NextLock]_vars

\* One thread in waitForEmptyQueue, the others calling the dispatcher
WaiterStep ==
    \/ WaiterLocks
    \/ WaiterChecks
    \/ WaiterBlocks
    \/ WaiterRelocks

NextDispatcher ==
    \/ dispatchEvent
    \/ processOneEvent
    \/ processEvents
    \/ clearEventQueue
    \/ EventDispatcher_start
    \/ EventDispatcher_stop
    \/ WaiterLocks
    \/ WaiterChecks
    \/ WaiterBlocks
    \/ WaiterRelocks
    \/ SpuriousWakeup

SpecDispatcher == InitStore /\ [][NextDispatcher]_vars

\* the waiting thread is scheduled: whenever it can take its next step it
\* eventually does.  Calls of the other threads and spurious wake-ups are
\* not promised.
SpecDispatcherFair == SpecDispatcher /\ WF_vars(WaiterStep)

\* Producers and one consumer on the dispatcher of one machine
NextQueue ==
    \/ EventDispatcher_setEventHandler
    \/ Producer_dispatchEvent
    \/ Producer_clearEventQueue
    \/ ConsumerCalls
    \/ ConsumerLocks
    \/ ConsumerTakes
    \/ ConsumerInvokes
    \/ HandlerRuns

SpecQueue == InitStore /\ [][NextQueue]_vars

-----------------------------------------------------------------------------
(* Vocabulary of the properties.  These definitions restate, from the      *)
(* configuration and the registry alone, what an operation is expected to  *)
(* do; they do not use the operators that model the handlers.              *)

\* the transitions the configuration declares for (state, event)
Declared(state, event) ==
    {i \in DOMAIN config.transitions :
        /\ config.transitions[i].from_state = state
        /\ config.transitions[i].event_name = event}

\* the last operation was triggerEvent on a Running machine
TriggeredRunning ==
    /\ lastOp.op = "triggerEvent"
    /\ lastOp.pre_started
    /\ lastOp.pre_current_state # ""

\* ... and the configuration declares a transition for it
TriggeredDeclared == TriggeredRunning /\ Declared(lastOp.pre_current_state, lastOp.arg) # {}

\* that transition (unique in a validated configuration)
LastTransition ==
    config.transitions[CHOOSE i \in Declared(lastOp.pre_current_state, lastOp.arg) : TRUE]

LastGuardKey ==
    LastTransition.from_state \o ":" \o LastTransition.to_state \o ":" \o lastOp.arg

LastEvent ==
    [event_name |-> lastOp.arg, from_state |-> lastOp.pre_current_state,
     to_state |-> LastTransition.to_state]

\* the transition declares no guard, or the guard registered for it returns true
LastGuardPasses ==
    \/ LastTransition.guard_callback = ""
    \/ LastGuardKey \in DOMAIN guards /\ guards[LastGuardKey] = "gTrue"

\* the machine state is what it was before the last operation
MachineUnchanged ==
    /\ current_state = lastOp.pre_current_state
    /\ started = lastOp.pre_started

IndicesOf(kind) == {i \in DOMAIN log : log[i].kind = kind}

OnlyKinds(kinds) == \A i \in DOMAIN log : log[i].kind \in kinds

\* the actions of a declared list that have a binding, in declared order
Bound(names) == SelectSeq(names, LAMBDA a : a \in DOMAIN actions)

\* one notification per registered observer, in registration order
Fanout(hook, arg, ev, cur, st) ==
    [k \in 1..Len(observers) |->
        [kind |-> hook, key |-> arg, obs |-> observers[k], event |-> ev,
         cur |-> cur, started |-> st]]

ActionCalls(names, cur, st) ==
    [k \in 1..Len(Bound(names)) |->
        [kind |-> "action", key |-> Bound(names)[k], obs |-> 0, event |-> NoEvent,
         cur |-> cur, started |-> st]]

\* position of the assignment to current_state in the last operation, 0 if none
SwitchIndex ==
    IF IndicesOf("set_current_state") = {} THEN 0
    ELSE CHOOSE i \in IndicesOf("set_current_state") : TRUE

\* the step of the transition protocol (1..9) a log entry belongs to;
\* 0 for the guard evaluation, 99 for anything that is not a protocol step
Rank(i) ==
    LET en == log[i]
        old == lastOp.pre_current_state
        new == LastTransition.to_state
    IN  CASE en.kind = "guard" -> 0
          [] en.kind = "state_callback" ->
                IF en.key = old \o ":on_exit" /\ i < SwitchIndex THEN 1
                ELSE IF en.key = new \o ":on_enter" /\ i > SwitchIndex THEN 6
                ELSE 99
          [] en.kind = "onStateExit" -> 2
          [] en.kind = "action" -> IF i < SwitchIndex THEN 3 ELSE 7
          [] en.kind = "transition_callback" -> 4
          [] en.kind = "set_current_state" -> 5
          [] en.kind = "onStateEnter" -> 8
          [] en.kind = "onTransition" -> 9
          [] OTHER -> 99

\* the entries of protocol step r, in call order
Phase(r) ==
    LET idx == {i \in DOMAIN log : Rank(i) = r}
        lo == CHOOSE i \in idx : \A j \in idx : i <= j
    IN  IF idx = {} THEN << >>
        ELSE [k \in 1..Cardinality(idx) |-> log[lo + k - 1]]

-----------------------------------------------------------------------------
C2_FalseGuardBlocks ==
    (/\ TriggeredDeclared
     /\ LastTransition.guard_callback # ""
     /\ LastGuardKey \in DOMAIN guards
     /\ guards[LastGuardKey] = "gFalse") =>
        /\ lastOp.result = "ok"
        /\ MachineUnchanged
        /\ OnlyKinds({"guard"})

\* a false guard blocked a transition whose hooks were all wired
C2_Witness ==
    /\ TriggeredDeclared
    /\ LastTransition.guard_callback # ""
    /\ LastGuardKey \in DOMAIN guards
    /\ guards[LastGuardKey] = "gFalse"
    /\ Len(observers) = 2
    /\ "idle:on_exit" \in DOMAIN state_callbacks
    /\ "a2" \in DOMAIN actions

\* C3: a transition that declares a guard for which nothing is registered
\* under (from, to, event) is blocked like one whose guard returns false:
\* triggerEvent returns normally, the machine state is unchanged and no hook
\* at all is invoked.
C3_UnregisteredGuardFailsClosed ==
    (/\ TriggeredDeclared
     /\ LastTransition.guard_callback # ""
     /\ LastGuardKey \notin DOMAIN guards) =>
        /\ lastOp.result = "ok"
        /\ MachineUnchanged
        /\ log = << >>

\* the guard of the transition is missing while another guard is registered
C3_Witness ==
    /\ TriggeredDeclared
    /\ LastTransition.guard_callback # ""
    /\ LastGuardKey \notin DOMAIN guards
    /\ guards # EmptyMap
    /\ observers # << >>
    /\ error_handler # NullCallable
    /\ "idle:on_exit" \in DOMAIN state_callbacks

C5_GuardOnceAndFirst ==
    (TriggeredDeclared /\ LastTransition.guard_callback # "") =>
        /\ Cardinality(IndicesOf("guard")) =
              (IF LastGuardKey \in DOMAIN guards THEN 1 ELSE 0)
        /\ LastGuardKey \in DOMAIN guards =>
              /\ log[1].kind = "guard"
              /\ log[1].key = LastGuardKey
              /\ log[1].cur = LastTransition.from_state
              /\ log[1].cur = lastOp.pre_current_state
              /\ log[1].started

\* a guard passed and the transition went on to another state
C5_Witness ==
    /\ TriggeredDeclared
    /\ LastTransition.guard_callback # ""
    /\ LastGuardKey \in DOMAIN guards
    /\ current_state # lastOp.pre_current_state
    /\ Len(log) >= 6

\* C6: triggerEvent or stop on a machine that is not Running fails with a
\* StateException; current_state and started are unchanged and no callback,
\* action or observer hook is invoked (only the error handler, if set).
C6_NotRunningFails ==
    (lastOp.op \in {"triggerEvent", "stop"} /\ ~lastOp.pre_started) =>
        /\ lastOp.result = "StateException"
        /\ MachineUnchanged
        /\ OnlyKinds({"error_handler"})

\* triggerEvent on a stopped machine that kept a state with a transition
C6_Witness ==
    /\ lastOp.op = "triggerEvent" /\ ~lastOp.pre_started
    /\ lastOp.pre_current_state = "idle" /\ lastOp.arg = "loop"
    /\ observers # << >>
    /\ "idle:on_exit" \in DOMAIN state_callbacks

\* C7: a start() whose preconditions hold succeeds and does, in this order:
\* set current_state to the initial state, call its on-enter callback if one
\* is registered, call its actions in declared order, notify each observer's
\* state-enter hook once in registration order, and only then set started.
C7_StartSequence ==
    (/\ lastOp.op = "start"
     /\ ~lastOp.pre_started
     /\ initial_state # ""
     /\ initial_state \in DOMAIN config.states) =>
        LET s == initial_state
        IN  /\ lastOp.result = "ok"
            /\ current_state = s
            /\ started
            /\ log =
                 << [kind |-> "set_current_state", key |-> s, obs |-> 0,
                     event |-> NoEvent, cur |-> lastOp.pre_current_state,
                     started |-> FALSE] >>
                 \o (IF s \o ":on_enter" \in DOMAIN state_callbacks
                     THEN << [kind |-> "state_callback", key |-> s \o ":on_enter",
                              obs |-> 0, event |-> NoEvent, cur |-> s,
                              started |-> FALSE] >>
                     ELSE << >>)
                 \o ActionCalls(config.states[s].actions, s, FALSE)
                 \o Fanout("onStateEnter", s, NoEvent, s, FALSE)
                 \o << [kind |-> "set_started", key |-> "true", obs |-> 0,
                        event |-> NoEvent, cur |-> s, started |-> FALSE] >>

\* a start with an on-enter callback, two actions and two observers
C7_Witness ==
    /\ lastOp.op = "start" /\ lastOp.result = "ok"
    /\ Len(observers) = 2
    /\ initial_state \o ":on_enter" \in DOMAIN state_callbacks
    /\ Len(Bound(config.states[initial_state].actions)) = 2

\* C8: start() on a Running machine fails with a StateException and changes
\* nothing: current_state keeps its value, the machine stays Running and no
\* enter callback, action or observer hook is invoked.
C8_StartWhileRunningFails ==
    (lastOp.op = "start" /\ lastOp.pre_started) =>
        /\ lastOp.result = "StateException"
        /\ MachineUnchanged
        /\ OnlyKinds({"error_handler"})

\* start on a Running machine whose current state is no longer the initial one
C8_Witness ==
    /\ lastOp.op = "start" /\ lastOp.pre_started
    /\ lastOp.pre_current_state # initial_state
    /\ observers # << >>
    /\ initial_state \o ":on_enter" \in DOMAIN state_callbacks

\* C9: start() on a machine whose initial state is empty (no states) or is
\* not a declared state (an explicit initial_state the loader accepted)
\* reports to the error handler if one is set and fails with a
\* StateException; current_state is still empty, the machine is not Running
\* and nothing else was invoked.
C9_StartWithoutInitialStateFails ==
    (/\ lastOp.op = "start"
     /\ ~lastOp.pre_started
     /\ (initial_state = "" \/ initial_state \notin DOMAIN config.states)) =>
        /\ lastOp.result = "StateException"
        /\ current_state = ""
        /\ ~started
        /\ log = (IF error_handler # NullCallable
                  THEN << [kind |-> "error_handler", key |-> lastOp.error,
                           obs |-> 0, event |-> NoEvent, cur |-> "",
                           started |-> FALSE] >>
                  ELSE << >>)

\* start on a loaded configuration whose explicit initial state is undeclared
C9_Witness ==
    /\ lastOp.op = "start" /\ ~lastOp.pre_started
    /\ initial_state # "" /\ initial_state \notin DOMAIN config.states
    /\ DOMAIN config.states # {}
    /\ error_handler # NullCallable
    /\ observers # << >>

\* C10: stop() on a Running machine calls the current state's on-exit
\* callback if one is registered, then notifies each observer's state-exit
\* hook once with the current state, then clears started; current_state
\* keeps the value it had before stop().
C10_StopSequence ==
    (lastOp.op = "stop" /\ lastOp.pre_started) =>
        LET s == lastOp.pre_current_state
        IN  /\ lastOp.result = "ok"
            /\ current_state = s
            /\ ~started
            /\ log =
                 (IF s \o ":on_exit" \in DOMAIN state_callbacks
                  THEN << [kind |-> "state_callback", key |-> s \o ":on_exit",
                           obs |-> 0, event |-> NoEvent, cur |-> s,
                           started |-> TRUE] >>
                  ELSE << >>)
                 \o Fanout("onStateExit", s, NoEvent, s, TRUE)
                 \o << [kind |-> "set_started", key |-> "false", obs |-> 0,
                        event |-> NoEvent, cur |-> s, started |-> TRUE] >>

\* stop in a state whose on-exit callback is registered but not declared
C10_Witness ==
    /\ lastOp.op = "stop" /\ lastOp.pre_started
    /\ lastOp.pre_current_state = "active"
    /\ "active:on_exit" \in DOMAIN state_callbacks
    /\ Len(observers) = 2

-----------------------------------------------------------------------------
\* the entries of a trace that are calls into user code (callbacks, guards,
\* actions, observer notifications, the error handler)
HookKinds ==
    {"state_callback", "transition_callback", "guard", "action",
     "onStateExit", "onStateEnter", "onTransition", "error_handler"}

Hooks(trace) == SelectSeq(trace, LAMBDA en : en.kind \in HookKinds)

\* the call of the state callback bound under `key`, if one is bound
StateCallbackCall(key, cur, st) ==
    IF key \in DOMAIN state_callbacks /\ state_callbacks[key] # NullCallable
    THEN << [kind |-> "state_callback", key |-> key, obs |-> 0,
             event |-> NoEvent, cur |-> cur, started |-> st] >>
    ELSE << >>

\* what reset() leaves behind and which hooks it fires
ResetOutcome ==
    lastOp.op = "reset" =>
        LET old == lastOp.pre_current_state
        IN  /\ lastOp.result = "ok"
            /\ lastOp.error = ""
            /\ current_state = ""
            /\ ~started
            /\ initial_state = config.initial_state
            /\ Hooks(log) =
                  IF lastOp.pre_started
                  THEN StateCallbackCall(old \o ":on_exit", old, TRUE)
                       \o Fanout("onStateExit", old, NoEvent, old, TRUE)
                  ELSE << >>

\* a start() that is the next operation after a reset()
StartAfterReset ==
    (/\ lastOp.op = "reset"
     /\ lastOp'.op = "start"
     /\ config.initial_state \in DOMAIN config.states)
    => LET init == config.initial_state
       IN  /\ lastOp'.result = "ok"
           /\ current_state' = init
           /\ started'
           /\ Hooks(log') =
                 StateCallbackCall(init \o ":on_enter", init, FALSE)
                 \o ActionCalls(config.states[init].actions, init, FALSE)
                 \o Fanout("onStateEnter", init, NoEvent, init, FALSE)

\* C11: reset() on a Running machine performs exactly one stop() (the
\* current state's on-exit callback, if registered, and one onStateExit per
\* observer, each once), after which the current state is empty, the
\* machine is not Running and the initial state is the configured one;
\* reset() on a machine that is not Running fires no hook and raises no
\* error; a start() that follows a reset() succeeds, enters the initial
\* state and fires the enter hooks of the initial state and of no other
\* state (for a configuration whose initial state is declared).
C11_ResetThenStart == [](ResetOutcome) /\ [][StartAfterReset]_vars

C11_Witness ==
    /\ lastOp.op = "reset"
    /\ lastOp.pre_started
    /\ lastOp.pre_current_state = "active"
    /\ "active:on_exit" \in DOMAIN state_callbacks
    /\ Len(observers) = NumObservers
    /\ Len(Hooks(log)) = 1 + NumObservers

-----------------------------------------------------------------------------
\* the message of the runtime error the last operation must fail with,
\* "" when its preconditions hold
ExpectedError ==
    CASE lastOp.op = "start" ->
            IF lastOp.pre_started THEN "StateMachine is already started"
            ELSE IF config.initial_state = ""
                 THEN "No initial state found in configuration"
            ELSE IF config.initial_state \notin DOMAIN config.states
                 THEN "Initial state '" \o config.initial_state \o "' not found"
            ELSE ""
      [] lastOp.op \in {"stop", "triggerEvent"} ->
            IF ~lastOp.pre_started THEN "StateMachine is not started" ELSE ""
      [] lastOp.op = "getVariable" ->
            IF /\ lastOp.arg \notin DOMAIN LocalScope(lastOp.pre_current_state)
               /\ lastOp.arg \notin DOMAIN global_variables
            THEN "Variable '" \o lastOp.arg \o "' not found"
            ELSE ""
      [] OTHER -> ""

ErrorHandlerCalls == SelectSeq(log, LAMBDA en : en.kind = "error_handler")

\* C12: when start(), stop(), triggerEvent() or getVariable() fails with a
\* runtime error, the failure is raised as a StateException carrying the
\* error message whether or not an error handler is set; with a handler
\* set the handler is invoked exactly once, with that message, as the last
\* call before the failure is raised; with no handler nothing is invoked.
C12_ErrorHandlerOnFailure ==
    (lastOp.op \in {"start", "stop", "triggerEvent", "getVariable"}
     /\ ExpectedError # "")
    => /\ lastOp.result = "StateException"
       /\ lastOp.error = ExpectedError
       /\ IF error_handler # NullCallable
          THEN /\ Len(ErrorHandlerCalls) = 1
               /\ ErrorHandlerCalls[1].key = ExpectedError
               /\ log[Len(log)].kind = "error_handler"
          ELSE ErrorHandlerCalls = << >>

C12_Witness ==
    /\ lastOp.op = "getVariable"
    /\ lastOp.result = "StateException"
    /\ lastOp.error = "Variable 'y' not found"
    /\ error_handler = "h"
    /\ Len(log) = 1
    /\ log[1].key = "Variable 'y' not found"

-----------------------------------------------------------------------------
\* C20: getVariable(name) returns the variable local to the current state
\* when that state has one of that name, otherwise the global variable of
\* that name, otherwise it fails as not found: a local variable shadows the
\* global of the same name only while its state is the current state.
C20_LocalThenGlobal ==
    lastOp.op = "getVariable" =>
        LET name == lastOp.arg
            local == LocalScope(current_state)
        IN  IF name \in DOMAIN local
            THEN lastOp.result = "ok" /\ lastOp.value = << local[name] >>
            ELSE IF name \in DOMAIN global_variables
                 THEN /\ lastOp.result = "ok"
                      /\ lastOp.value = << global_variables[name] >>
            ELSE /\ lastOp.result = "StateException"
                 /\ lastOp.value = << >>

\* global x = 1 and idle's own x = 2: in idle the read yields 2
C20_Witness ==
    /\ lastOp.op = "getVariable"
    /\ lastOp.arg = "x"
    /\ started
    /\ current_state = "idle"
    /\ global_variables["x"] = 1
    /\ state_variables["idle"]["x"] = 2
    /\ lastOp.value = << 2 >>

\* ... and after the transition to active, which has no x, it yields 1
C20_FallbackReached ==
    /\ lastOp.op = "getVariable"
    /\ lastOp.arg = "x"
    /\ started
    /\ current_state = "active"
    /\ "active" \notin DOMAIN state_variables
    /\ global_variables["x"] = 1
    /\ state_variables["idle"]["x"] = 2
    /\ lastOp.value = << 1 >>

-----------------------------------------------------------------------------
Calls(kind) == SelectSeq(log, LAMBDA en : en.kind = kind)

\* C13: start(), stop() and triggerEvent() fail only on their lifecycle
\* preconditions, never because a callback, guard or action named in the
\* configuration has no binding, whatever the registry holds: the operation
\* succeeds, skips the missing state callback, transition callback or
\* action and still performs its remaining steps (the bound actions, every
\* observer notification, the state change); a declared guard without a
\* binding only blocks its transition, leaving the machine unchanged.
C13_MissingBindingNeverFails ==
    (lastOp.op \in {"start", "stop", "triggerEvent"} /\ ExpectedError = "")
    => /\ lastOp.result = "ok"
       /\ lastOp.error = ""
       /\ ErrorHandlerCalls = << >>
       /\ lastOp.op = "start" =>
             LET init == config.initial_state
             IN  /\ started /\ current_state = init
                 /\ Calls("action") =
                       ActionCalls(config.states[init].actions, init, FALSE)
                 /\ Calls("onStateEnter") =
                       Fanout("onStateEnter", init, NoEvent, init, FALSE)
       /\ lastOp.op = "stop" =>
             /\ ~started
             /\ Calls("onStateExit") =
                   Fanout("onStateExit", current_state, NoEvent, current_state, TRUE)
       /\ (lastOp.op = "triggerEvent" /\ TriggeredDeclared) =>
             IF LastGuardPasses
             THEN LET old == lastOp.pre_current_state
                      new == LastTransition.to_state
                  IN  /\ current_state = new /\ started
                      /\ Calls("action") =
                            ActionCalls(LastTransition.actions, old, TRUE)
                            \o ActionCalls(config.states[new].actions, new, TRUE)
                      /\ Calls("onStateExit") =
                            Fanout("onStateExit", old, NoEvent, old, TRUE)
                      /\ Calls("onStateEnter") =
                            Fanout("onStateEnter", new, NoEvent, new, TRUE)
                      /\ Calls("onTransition") =
                            Fanout("onTransition", lastOp.arg, LastEvent, new, TRUE)
             ELSE /\ MachineUnchanged
                  /\ OnlyKinds({"guard"})

\* idle --go--> active with nothing bound but the guard and action a1: the
\* declared exitIdle, onGo and a2 are missing, a1 and the observers still run
C13_Witness ==
    /\ lastOp.op = "triggerEvent"
    /\ lastOp.arg = "go"
    /\ lastOp.pre_current_state = "idle"
    /\ lastOp.result = "ok"
    /\ current_state = "active"
    /\ DOMAIN state_callbacks = {}
    /\ DOMAIN transition_callbacks = {}
    /\ DOMAIN actions = {"a1"}
    /\ Len(observers) = NumObservers
    /\ Len(Calls("action")) = 1
    /\ Len(Calls("onTransition")) = NumObservers

-----------------------------------------------------------------------------
\* the last operation was a start() whose preconditions held
StartedNow == lastOp.op = "start" /\ ExpectedError = ""

\* the last operation was a triggerEvent that performed a transition
TransitionedNow == TriggeredDeclared /\ LastGuardPasses

\* the state the last operation entered, "" if it entered none
EnteredState ==
    IF StartedNow THEN config.initial_state
    ELSE IF TransitionedNow THEN LastTransition.to_state
    ELSE ""

OnEnterKeys == {st \o ":on_enter" : st \in DOMAIN config.states}

\* the state-callback calls made under one of `keys`, in call order
StateCallbackCalls(keys) ==
    SelectSeq(log, LAMBDA en : en.kind = "state_callback" /\ en.key \in keys)

\* C14: the on-enter callback of a state is invoked, once and after the
\* switch to that state, on a start() that enters it and on every
\* transition into it, exactly when a callback is registered under
\* (state, on_enter), whether or not the configuration declares an on_enter
\* name for the state; no other state's on-enter callback is invoked.
C14_OnEnterGatedByRegistry ==
    lastOp.op \in {"start", "stop", "reset", "triggerEvent"} =>
        LET key == EnteredState \o ":on_enter"
        IN  StateCallbackCalls(OnEnterKeys) =
                IF /\ EnteredState # ""
                   /\ key \in DOMAIN state_callbacks
                   /\ state_callbacks[key] # NullCallable
                THEN << [kind |-> "state_callback", key |-> key, obs |-> 0,
                         event |-> NoEvent, cur |-> EnteredState,
                         started |-> lastOp.pre_started] >>
                ELSE << >>

\* a transition into idle, for which the configuration declares no
\* on_enter, with a callback registered under (idle, on_enter)
C14_Witness ==
    /\ TransitionedNow
    /\ lastOp.pre_current_state = "active"
    /\ EnteredState = "idle"
    /\ config.states["idle"].on_enter_callback = ""
    /\ "idle:on_enter" \in DOMAIN state_callbacks
    /\ Len(StateCallbackCalls({"idle:on_enter"})) = 1

\* C15: during every transition out of a state, the callback registered
\* under (state, on_exit) is invoked exactly once, also when the
\* configuration declares no on_exit name for the state.
C15_OnExitWheneverRegistered ==
    TransitionedNow =>
        LET key == lastOp.pre_current_state \o ":on_exit"
        IN  (key \in DOMAIN state_callbacks /\ state_callbacks[key] # NullCallable)
            => Len(StateCallbackCalls({key})) = 1

\* C16: during every transition A -> B the transition callback registered
\* under (A, B) is invoked exactly once, with the event of the transition,
\* also when the configuration declares no on_transition name for it.
C16_TransitionCallbackWheneverRegistered ==
    TransitionedNow =>
        LET key == lastOp.pre_current_state \o ":" \o LastTransition.to_state
        IN  (/\ key \in DOMAIN transition_callbacks
             /\ transition_callbacks[key] # NullCallable)
            => /\ Len(Calls("transition_callback")) = 1
               /\ Calls("transition_callback")[1].key = key
               /\ Calls("transition_callback")[1].event = LastEvent

-----------------------------------------------------------------------------
\* the positions of a declared action list whose action has a binding
BoundPositions(names) ==
    {p \in DOMAIN names :
        names[p] \in DOMAIN actions /\ actions[names[p]] # NullCallable}

\* the k-th smallest element of a set of positions
Nth(positions, k) ==
    CHOOSE p \in positions : Cardinality({q \in positions : q <= p}) = k

\* `calls` is one call per bound occurrence of `names`, left to right
RunsInDeclaredOrder(calls, names) ==
    /\ Len(calls) = Cardinality(BoundPositions(names))
    /\ \A k \in DOMAIN calls :
          calls[k].key = names[Nth(BoundPositions(names), k)]

\* C17: an action list is executed left to right in declared order, each
\* listed occurrence that has a binding invoked exactly once: the
\* transition's list during a transition (before the switch), the entered
\* state's list on start() and after the switch of a transition; an action
\* without a binding is skipped silently and the actions after it still
\* run; an operation that performs no transition and no start runs none.
C17_ActionsInDeclaredOrder ==
    lastOp.op \in {"start", "stop", "reset", "triggerEvent"} =>
        IF StartedNow
        THEN RunsInDeclaredOrder(Calls("action"),
                                 config.states[EnteredState].actions)
        ELSE IF TransitionedNow
        THEN LET n == Cardinality(BoundPositions(LastTransition.actions))
                 all == Calls("action")
             IN  /\ n <= Len(all)
                 /\ RunsInDeclaredOrder(SubSeq(all, 1, n), LastTransition.actions)
                 /\ \A k \in 1..n : all[k].cur = lastOp.pre_current_state
                 /\ RunsInDeclaredOrder(SubSeq(all, n + 1, Len(all)),
                                        config.states[EnteredState].actions)
                 /\ \A k \in (n + 1)..Len(all) : all[k].cur = EnteredState
                 /\ lastOp.result = "ok"
        ELSE Calls("action") = << >>

\* idle --go--> active, whose list is <<a2, a1>>, with a1 bound and a2 not:
\* a2 is skipped and a1, listed after it, still runs
C17_Witness ==
    /\ TransitionedNow
    /\ LastTransition.actions = <<"a2", "a1">>
    /\ DOMAIN actions = {"a1"}
    /\ Len(Calls("action")) = 1
    /\ Calls("action")[1].key = "a1"
    /\ Calls("action")[1].cur = "idle"

\* idle --loop--> idle, whose list names a1 twice: a1 runs twice for the
\* transition and once more for idle's own list <<a1, a2>>
C17_RepeatedOccurrence ==
    /\ TransitionedNow
    /\ LastTransition.actions = <<"a1", "a1">>
    /\ DOMAIN actions = {"a1", "a2"}
    /\ [k \in 1..4 |-> Calls("action")[k].key] = <<"a1", "a1", "a1", "a2">>

-----------------------------------------------------------------------------
\* the positions of `history` that registered a non-empty callable under
\* (namespace, key)
Writes(namespace, key) ==
    {i \in DOMAIN history :
        /\ history[i][1] = namespace
        /\ history[i][2] = key
        /\ history[i][3] # NullCallable}

\* the callable most recently registered under (namespace, key): none or one
LastWrite(namespace, key) ==
    IF Writes(namespace, key) = {} THEN << >>
    ELSE << history[CHOOSE i \in Writes(namespace, key) :
                      \A j \in Writes(namespace, key) : j <= i][3] >>

\* the keys of a namespace under which a non-empty callable was registered
KeysWritten(namespace) ==
    {history[i][2] : i \in {j \in DOMAIN history :
                              history[j][1] = namespace
                              /\ history[j][3] # NullCallable}}

NamespaceOfCall ==
    [callStateCallback |-> "state", callTransitionCallback |-> "transition",
     callGuard |-> "guard", callAction |-> "action"]

NamespaceOfCount ==
    [getStateCallbackCount |-> "state", getTransitionCallbackCount |-> "transition",
     getGuardCount |-> "guard", getActionCount |-> "action"]

NamespaceOfHas ==
    [hasStateCallback |-> "state", hasTransitionCallback |-> "transition",
     hasGuard |-> "guard", hasAction |-> "action"]

RegisterOps ==
    {"registerStateCallback", "registerTransitionCallback", "registerGuard",
     "registerAction"}

\* C18: in each of the four namespaces the last registration under a key
\* wins: invoking the key runs exactly the callable most recently
\* registered under it, once, and none of the callables registered there
\* before (a guard call returns what that guard returns); registering under
\* a key that already has a binding never fails and leaves the namespace's
\* count at the number of distinct keys registered.
C18_LastWriteWins ==
    /\ lastOp.op \in DOMAIN NamespaceOfCall =>
          LET last == LastWrite(NamespaceOfCall[lastOp.op], lastOp.arg)
          IN  /\ Len(log) = Len(last)
              /\ \A i \in DOMAIN log : log[i].key = lastOp.arg
              /\ IF lastOp.op = "callGuard"
                 THEN lastOp.value = last \o << last = << "gTrue" >> >>
                 ELSE lastOp.value = last
    /\ lastOp.op \in DOMAIN NamespaceOfCount =>
          lastOp.value = << Cardinality(KeysWritten(NamespaceOfCount[lastOp.op])) >>
    /\ lastOp.op \in RegisterOps => lastOp.result = "ok"

\* f, then g, registered under (idle, on_enter): the call runs g
C18_Witness ==
    /\ lastOp.op = "callStateCallback"
    /\ lastOp.arg = "idle:on_enter"
    /\ history = << <<"state", "idle:on_enter", "f">>,
                    <<"state", "idle:on_enter", "g">> >>
    /\ lastOp.value = << "g" >>
    /\ Cardinality(DOMAIN state_callbacks) = 1

\* a step that registers an empty callable
NullRegistration ==
    /\ Len(history') = Len(history) + 1
    /\ history'[Len(history')][3] = NullCallable

\* C19: registering an empty callable in any namespace raises no error and
\* leaves the registry unchanged: a binding already under that key stays
\* and still fires, and existence queries and counts are what they were.
C19_NullRegistrationIgnored ==
    /\ [][NullRegistration =>
            /\ lastOp'.result = "ok"
            /\ state_callbacks' = state_callbacks
            /\ transition_callbacks' = transition_callbacks
            /\ guards' = guards
            /\ actions' = actions]_vars
    /\ [](lastOp.op \in DOMAIN NamespaceOfHas =>
            lastOp.value =
              << LastWrite(NamespaceOfHas[lastOp.op], lastOp.arg) # << >> >>)

\* f registered under action a1, then an empty callable under a1: the call
\* still runs f and the namespace still holds one binding
C19_Witness ==
    /\ lastOp.op = "callAction"
    /\ lastOp.arg = "a1"
    /\ history = << <<"action", "a1", "f">>, <<"action", "a1", NullCallable>> >>
    /\ lastOp.value = << "f" >>
    /\ Len(log) = 1
    /\ Cardinality(DOMAIN actions) = 1

-----------------------------------------------------------------------------
\* map `after` is map `before` with `name` bound to `value` and nothing else
\* touched
IsUpdateOf(after, before, name, value) ==
    /\ DOMAIN after = DOMAIN before \cup {name}
    /\ after[name] = value
    /\ \A n \in DOMAIN before \ {name} : after[n] = before[n]

\* a setVariable step: where the write lands and what it leaves alone
SetVariableFrame ==
    lastOp'.op = "setVariable" =>
        LET name == lastOp'.arg
            value == lastOp'.value[1]
        IN  /\ lastOp'.result = "ok"
            /\ UNCHANGED <<current_state, started>>
            /\ IF current_state # ""
               THEN /\ global_variables' = global_variables
                    /\ DOMAIN state_variables' =
                          DOMAIN state_variables \cup {current_state}
                    /\ \A st \in DOMAIN state_variables \ {current_state} :
                          state_variables'[st] = state_variables[st]
                    /\ IsUpdateOf(state_variables'[current_state],
                                  LocalScope(current_state), name, value)
               ELSE /\ state_variables' = state_variables
                    /\ IsUpdateOf(global_variables', global_variables, name, value)

\* C21: setVariable writes into the local scope of the current state
\* whenever current_state is non-empty, leaving the global map and every
\* other state's local map unchanged; it writes into the global scope only
\* when there is no current state, leaving all local maps unchanged.
C21_SetVariableScope == [][SetVariableFrame]_vars

\* a write of y in active: it lands in active's scope, created by the write
C21_Witness ==
    /\ lastOp.op = "setVariable"
    /\ lastOp.arg = "y"
    /\ current_state = "active"
    /\ "active" \in DOMAIN state_variables
    /\ "y" \in DOMAIN state_variables["active"]
    /\ "y" \notin DOMAIN global_variables
    /\ "y" \notin DOMAIN state_variables["idle"]

\* a write on a machine that has no current state lands in the global scope
C21_GlobalWriteReached ==
    /\ lastOp.op = "setVariable"
    /\ lastOp.arg = "y"
    /\ current_state = ""
    /\ "y" \in DOMAIN global_variables
    /\ DOMAIN state_variables = {"idle"}

-----------------------------------------------------------------------------
Registrants == {observers[i] : i \in DOMAIN observers}

\* the list without observer o, the others in their order
Without(list, o) == SelectSeq(list, LAMBDA x : x # o)

\* the observer list holds no null entry and no observer twice, and the
\* last operation notified registered observers only
ObserverListSound ==
    /\ 0 \notin Registrants
    /\ \A i, j \in DOMAIN observers : i # j => observers[i] # observers[j]
    /\ \A i \in DOMAIN log :
          log[i].kind \in {"onStateEnter", "onStateExit", "onTransition"}
             => log[i].obs \in Registrants

\* a step changes the list only by appending an observer that is not in it
\* or by removing one observer, the others keeping their order
ObserverListStep ==
    \/ observers' = observers
    \/ \E o \in ObserverIds \ Registrants : observers' = Append(observers, o)
    \/ \E o \in Registrants : observers' = Without(observers, o)

\* C25: under any sequence of registerStateObserver / unregisterStateObserver
\* calls the observer list holds each observer at most once and never a
\* null entry, in the order in which its members were registered;
\* registering an observer that is in the list and unregistering one that
\* is not change nothing; an observer is notified by no operation
\* performed after it was unregistered.
C25_ObserverListIdempotent == [](ObserverListSound) /\ [][ObserverListStep]_vars

\* both observers registered, observer 2 ahead of observer 1, and a start()
\* that notified them in list order
C25_Witness ==
    /\ observers = << 2, 1 >>
    /\ lastOp.op = "start"
    /\ lastOp.result = "ok"
    /\ Calls("onStateEnter") = Fanout("onStateEnter", current_state, NoEvent,
                                      current_state, FALSE)

\* C26: whenever start(), stop(), triggerEvent() or getVariable() fails
\* with a runtime error, the error hook (onError) of every registered
\* observer is called with the error message.
C26_ObserversNotifiedOfErrors ==
    (lastOp.op \in {"start", "stop", "triggerEvent", "getVariable"}
     /\ lastOp.result = "StateException")
    => Calls("onError") = Fanout("onError", lastOp.error, NoEvent,
                                lastOp.pre_current_state, lastOp.pre_started)

-----------------------------------------------------------------------------
\* the number of bindings in the store, both tiers
TotalBindings(globals, locals) ==
    Cardinality(DOMAIN globals)
    + Cardinality({<<st, n>> \in (DOMAIN locals) \X VariableNames :
                      n \in DOMAIN locals[st]})

\* map `after` is map `before` without `name`, nothing else touched
IsRemovalOf(after, before, name) ==
    /\ DOMAIN after = DOMAIN before \ {name}
    /\ \A n \in DOMAIN after : after[n] = before[n]

\* a removeVariable step
RemoveVariableFrame ==
    lastOp'.op = "removeVariable" =>
        LET st == lastOp'.state
            name == lastOp'.arg
            returned == lastOp'.value[1]
        IN  IF name \in DOMAIN LocalScope(st)
            THEN /\ returned
                 /\ global_variables' = global_variables
                 /\ DOMAIN state_variables' = DOMAIN state_variables
                 /\ IsRemovalOf(state_variables'[st], state_variables[st], name)
                 /\ \A other \in DOMAIN state_variables \ {st} :
                       state_variables'[other] = state_variables[other]
                 /\ TotalBindings(global_variables', state_variables')
                       = TotalBindings(global_variables, state_variables) - 1
            ELSE IF name \in DOMAIN global_variables
            THEN /\ returned
                 /\ state_variables' = state_variables
                 /\ IsRemovalOf(global_variables', global_variables, name)
                 /\ TotalBindings(global_variables', state_variables')
                       = TotalBindings(global_variables, state_variables) - 1
            ELSE /\ ~returned
                 /\ global_variables' = global_variables
                 /\ state_variables' = state_variables

\* C22: removeVariable(state, name) removes exactly one binding: the local
\* binding of `state` if there is one (a global binding of the same name
\* stays), otherwise the global binding; it returns false and changes
\* nothing when the name is in neither tier; it never deletes from both
\* tiers in one call.
C22_RemoveExactlyOne == [][RemoveVariableFrame]_vars

\* x removed from idle while the global x stays
C22_Witness ==
    /\ lastOp.op = "removeVariable"
    /\ lastOp.state = "idle"
    /\ lastOp.arg = "x"
    /\ lastOp.value = << TRUE >>
    /\ "idle" \in DOMAIN state_variables
    /\ "x" \notin DOMAIN state_variables["idle"]
    /\ "x" \in DOMAIN global_variables

\* the caller holds what a get returned and has not asked again
KeepsHolding ==
    /\ held # << >>
    /\ lastOp'.op \notin {"getGlobalVariables", "getStateVariables"}

\* C23: getGlobalVariables() and getStateVariables(state) hand the caller a
\* point-in-time copy made under the store's lock: what the caller holds
\* never changes after the call returns, whatever setGlobalVariable,
\* setStateVariable, removeVariable, copyStateVariables or clear do
\* afterwards, and the caller never reads one of the store's own maps
\* outside the lock.
C23_GettersReturnSnapshots ==
    /\ [][KeepsHolding => (held'.alive /\ Referent' = Referent)]_vars
    /\ [](lastOp.op = "read" =>
            /\ lastOp.result = "ok"
            /\ lastOp.arg \notin {"global", "state"})

\* a copyStateVariables step
CopyStateVariablesFrame ==
    lastOp'.op = "copyStateVariables" =>
        LET from == lastOp'.arg
            to == lastOp'.state
        IN  /\ global_variables' = global_variables
            /\ \A n \in DOMAIN LocalScope(from) :
                  /\ to \in DOMAIN state_variables'
                  /\ n \in DOMAIN state_variables'[to]
                  /\ state_variables'[to][n] = state_variables[from][n]
            /\ from \in DOMAIN state_variables =>
                  (from # to =>
                      /\ from \in DOMAIN state_variables'
                      /\ state_variables'[from] = state_variables[from])
            /\ \A other \in DOMAIN state_variables \ {to} :
                  /\ other \in DOMAIN state_variables'
                  /\ state_variables'[other] = state_variables[other]

\* C24: after copyStateVariables(from, to) every local binding of `from`
\* exists in `to` with the same value, a binding `to` had under one of
\* those names is overwritten, and the local map of `from`, the maps of
\* the other states and the global map are unchanged.
C24_CopyOverwrites == [][CopyStateVariablesFrame]_vars

\* idle copied over active: active now holds idle's bindings
C24_Witness ==
    /\ lastOp.op = "copyStateVariables"
    /\ lastOp.arg = "idle"
    /\ lastOp.state = "active"
    /\ "idle" \in DOMAIN state_variables
    /\ DOMAIN state_variables["idle"] = {"x", "y"}
    /\ state_variables["active"] = state_variables["idle"]
    /\ "x" \in DOMAIN global_variables

-----------------------------------------------------------------------------
(* The registry mutex                                                      *)

OtherThreads(t) == Threads \ {t}

InRegistry(t) == thread[t].at # "idle"

RegistryEmpty ==
    /\ DOMAIN state_callbacks = {}
    /\ DOMAIN transition_callbacks = {}
    /\ DOMAIN guards = {}
    /\ DOMAIN actions = {}

Moved(t) == thread'[t] # thread[t]

\* C28: while a thread is anywhere between taking the mutex in clear() and
\* returning from it, no other thread is inside a register, call or count
\* function, so none of them can see some of the four maps emptied and the
\* others not; at the point clear() returns the four maps are all empty;
\* and the counts a thread reads in one critical section are those of the
\* maps as they still are when it leaves.
C28_ClearIsAtomic ==
    /\ \A t \in Threads :
          (thread[t].op = "clear" /\ InRegistry(t)) =>
              /\ registry_mutex = t
              /\ \A u \in OtherThreads(t) : ~InRegistry(u)
    /\ \A t \in Threads :
          (thread[t].op = "clear" /\ thread[t].at = "done") => RegistryEmpty
    /\ \A t \in Threads :
          (thread[t].op = "getCounts" /\ thread[t].at = "done") =>
              thread[t].fn = << Cardinality(DOMAIN state_callbacks),
                               Cardinality(DOMAIN transition_callbacks),
                               Cardinality(DOMAIN guards),
                               Cardinality(DOMAIN actions) >>

\* thread 1 is half-way through clear(): two maps emptied, two still full
C28_Witness ==
    /\ thread[1].op = "clear"
    /\ thread[1].at = "cleared2"
    /\ DOMAIN state_callbacks = {}
    /\ DOMAIN transition_callbacks = {}
    /\ DOMAIN guards # {}
    /\ DOMAIN actions # {}
    /\ lastOp.thread = 2

\* the mutex is the invoking thread's for as long as the callback runs
HeldThroughCallback ==
    \A t \in Threads :
        thread[t].at \in {"in_callback", "reentering", "blocked", "unwinding"} =>
            registry_mutex = t

\* a thread blocked on the mutex it owns stays there, and the registry
\* stays locked and untouched
BlockedForever ==
    \A t \in Threads :
        thread[t].at = "blocked" =>
            /\ thread'[t] = thread[t]
            /\ registry_mutex' = t
            /\ registryVars' = registryVars

\* a callback that does not call into the registry runs to its end
OtherCallbacksReturn ==
    \A t \in Threads :
        (thread[t].at = "in_callback" /\ Moved(t)
         /\ thread[t].fn \notin ReentrantBehaviours) =>
            thread'[t].at = "done"

-----------------------------------------------------------------------------
(* waitForEmptyQueue                                                       *)

InWait == waiter \in {"locked", "checked", "blocked", "woken", "relocked"}

\* the waiter found the queue non-empty and the dispatcher running
FoundBusy == waiter \in {"checked", "blocked"}

\* C29: a waitForEmptyQueue call that finds the queue empty or the
\* dispatcher stopped returns at once, and a call that is waiting while
\* the queue has been emptied (by processEvents, processOneEvent or
\* clearEventQueue) and the dispatcher is running eventually returns,
\* unless the queue is filled again or the dispatcher stopped first.
C29_WaiterReturnsWhenDrained ==
    /\ [][(waiter = "locked" /\ waitPredicate /\ waiter' # waiter) =>
              waiter' = "returned"]_vars
    /\ (InWait /\ event_queue = << >> /\ running)
          ~> (waiter = "returned" \/ event_queue # << >> \/ ~running)

\* C30: once stop() has run, a waiter that had found the queue non-empty
\* and the dispatcher running eventually returns, wherever stop() fell
\* between the waiter's evaluation of the predicate and its blocking,
\* unless the dispatcher is started again first.
C30_StopUnblocksWaiters ==
    (FoundBusy /\ ~running) ~> (waiter = "returned" \/ running)

-----------------------------------------------------------------------------
(* The event queue between producers and the consumer                      *)

EventsOf(entries) == [i \in 1..Len(entries) |-> entries[i].event]

Popped == SelectSeq(delivery.removed, LAMBDA r : r.how = "popped")

\* the event the consumer has popped and not yet passed on
InFlight == IF consumer.at = "popped" THEN consumer.event ELSE << >>

\* the consumer has returned from the call lastOp describes and has not
\* called again
Returned(op) == lastOp.op = op /\ consumer = NotConsuming

HandlerCallsSince(n) ==
    Len(SelectSeq(SubSeq(delivery.handled, n + 1, Len(delivery.handled)),
                  LAMBDA c : c.handler # NullCallable))

PoppedSince(n) ==
    Len(SelectSeq(SubSeq(delivery.removed, n + 1, Len(delivery.removed)),
                  LAMBDA r : r.how = "popped"))

ClearedSince(n) ==
    Len(SelectSeq(SubSeq(delivery.removed, n + 1, Len(delivery.removed)),
                  LAMBDA r : r.how = "cleared"))

\* C31: the events taken out of the queue so far (popped or cleared),
\* followed by the events still queued, are exactly the events dispatched,
\* in dispatch order: nothing is lost, duplicated or reordered, and the
\* queue size is the number dispatched minus the number popped or cleared;
\* every popped event is passed on exactly once, in pop order, to the
\* handler set at that moment (or to none if none is set); and
\* processOneEvent returns false when it found the queue empty and popped
\* nothing, true when it popped one event.
C31_QueueIsFifo ==
    /\ EventsOf(delivery.removed) \o event_queue = delivery.enqueued
    /\ Len(event_queue) = Len(delivery.enqueued) - Len(delivery.removed)
    /\ EventsOf(delivery.handled) \o InFlight = EventsOf(Popped)
    /\ \A i \in 1..Len(delivery.enqueued) : delivery.enqueued[i].payload = i
    /\ Returned("processOneEvent") =>
          /\ lastOp.result = "false" =>
                (event_queue = << >> /\ PoppedSince(lastOp.entry.removed) = 0)
          /\ lastOp.result = "true" => PoppedSince(lastOp.entry.removed) = 1

\* two events were queued together and the consumer has handled both, the
\* older one first
C31_Witness ==
    /\ Len(delivery.handled) = 2
    /\ delivery.handled[1].event.payload = 1
    /\ delivery.handled[2].event.payload = 2
    /\ delivery.handled[1].handler = "h"
    /\ Returned("processEvents")
    /\ lastOp.entry.queued = 2

\* C40: the handler runs with queue_mutex released, so its own calls of
\* dispatchEvent, getEventQueueSize and clearEventQueue can take it; when
\* processEvents returns the queue is empty, and with a handler set the
\* number of handler calls it made is the number of events queued at the
\* call plus those enqueued during it (by the handler or by producers)
\* minus those cleared during it: n calls for n queued events and a
\* handler that enqueues nothing, and every event the handler enqueued
\* handled before the return.
C40_HandlerOutsideLock ==
    /\ consumer.at = "in_handler" => queue_mutex # ConsumerThread
    /\ Returned("processEvents") =>
          /\ event_queue = << >>
          /\ event_handler # NullCallable =>
                HandlerCallsSince(lastOp.entry.handled) =
                    lastOp.entry.queued
                    + (Len(delivery.enqueued) - lastOp.entry.enqueued)
                    - ClearedSince(lastOp.entry.removed)

\* processEvents found one "go" queued; the handler dispatched a "back"
\* for it, which was handled before processEvents returned
C40_Witness ==
    /\ Returned("processEvents")
    /\ event_handler = "hDispatch"
    /\ lastOp.entry.queued = 1
    /\ Len(delivery.enqueued) - lastOp.entry.enqueued = 1
    /\ HandlerCallsSince(lastOp.entry.handled) = 2
    /\ delivery.handled[Len(delivery.handled)].event.event_name = "back"

-----------------------------------------------------------------------------
(* Scenario B                                                              *)

\* the health a callback sees while `state` is the current state
HealthIn(state) ==
    IF state \in DOMAIN state_variables
       /\ "health" \in DOMAIN state_variables[state]
    THEN state_variables[state]["health"]
    ELSE global_variables["health"]

HealthGuardRegistered ==
    /\ "playing:game_over:player_died" \in DOMAIN guards
    /\ guards["playing:game_over:player_died"] = "gHealth"

\* C32: with the health guard registered, player_died in playing moves the
\* machine to game_over exactly when the health visible in playing is 0 or
\* below and otherwise leaves it in playing; and once the running machine
\* is in game_over no event and no setVariable takes it out.
C32_GuardScenario ==
    /\ [](( /\ lastOp.op = "triggerEvent"
            /\ lastOp.arg = "player_died"
            /\ lastOp.pre_started
            /\ lastOp.pre_current_state = "playing"
            /\ HealthGuardRegistered ) =>
              /\ lastOp.result = "ok"
              /\ current_state = IF HealthIn("playing") <= 0
                                 THEN "game_over" ELSE "playing")
    /\ [][( /\ started
            /\ current_state = "game_over"
            /\ lastOp'.op \in {"triggerEvent", "setVariable"} ) =>
              (started' /\ current_state' = "game_over")]_vars

\* health was 100 at the start, was set to 0 in playing, and player_died
\* then moved the machine to game_over
C32_Witness ==
    /\ lastOp.op = "triggerEvent"
    /\ lastOp.arg = "player_died"
    /\ lastOp.pre_current_state = "playing"
    /\ started
    /\ current_state = "game_over"
    /\ global_variables["health"] = 100
    /\ HealthIn("playing") = 0

\* player_died with health 100 left the machine in playing
C32_Blocked ==
    /\ lastOp.op = "triggerEvent"
    /\ lastOp.arg = "player_died"
    /\ HealthGuardRegistered
    /\ started
    /\ current_state = "playing"
    /\ HealthIn("playing") = 100

-----------------------------------------------------------------------------
(* The defensive checks of the transition step                             *)

TargetMissingErrors ==
    {"Target state '" \o config.transitions[i].to_state \o "' does not exist" :
        i \in DOMAIN config.transitions}

\* C33: in a loaded configuration every transition's target is a declared
\* state, so a triggerEvent that found a transition whose guard passed (or
\* that has no guard) succeeds and arrives in the target, and no
\* triggerEvent ever fails with "Target state ... does not exist".
C33_TargetAlwaysExists ==
    /\ \A i \in DOMAIN config.transitions :
          config.transitions[i].to_state \in DOMAIN config.states
    /\ lastOp.op = "triggerEvent" => lastOp.error \notin TargetMissingErrors
    /\ TransitionedNow =>
          /\ lastOp.result = "ok"
          /\ lastOp.error = ""
          /\ current_state = LastTransition.to_state

\* the guarded transition idle --go--> active was found, its guard passed
\* and the machine is in active
C33_Witness ==
    /\ TransitionedNow
    /\ lastOp.arg = "go"
    /\ LastTransition.guard_callback = "canGo"
    /\ lastOp.pre_current_state = "idle"
    /\ current_state = "active"
    /\ started

\* C34: whenever the machine is Running its current state is non-empty
\* and is a state the configuration declares, and no operation ever fails
\* with "No current state".
C34_RunningHasCurrentState ==
    /\ started =>
          /\ current_state # ""
          /\ current_state \in DOMAIN config.states
    /\ lastOp.error # "No current state"

\* a Running machine in active, reached through start and a transition,
\* after a setVariable
C34_Witness ==
    /\ started
    /\ current_state = "active"
    /\ lastOp.op = "setVariable"
    /\ lastOp.pre_started
    /\ "active" \in DOMAIN state_variables

-----------------------------------------------------------------------------
(* Exceptions raised by hooks                                              *)

\* C35: a start() or triggerEvent() that a callback, action or observer
\* left by an exception leaves current_state and started as they were
\* before the call.
C35_ExceptionLeavesMachineUnchanged ==
    (lastOp.op \in {"start", "triggerEvent"} /\ lastOp.result = "exception") =>
        /\ current_state = lastOp.pre_current_state
        /\ started = lastOp.pre_started

-----------------------------------------------------------------------------
(* Notifications and the current state                                     *)

\* C36: whenever an observer receives onStateEnter(S) or onStateExit(S),
\* the current state is S at that moment, also when an earlier observer
\* has called triggerEvent from inside its own notification.
C36_NotifiedStateIsCurrent ==
    \A i \in DOMAIN log :
        log[i].kind \in {"onStateEnter", "onStateExit"} =>
            log[i].cur = log[i].key

-----------------------------------------------------------------------------
(* What the lifecycle leaves alone                                         *)

\* a lifecycle call or an event has just been made
LifecycleStep == lastOp'.op \in {"start", "stop", "reset", "triggerEvent"}

\* a state's local scope holds a value other than the configured one
LocallyWritten ==
    \E s \in DOMAIN state_variables :
        \/ s \notin DOMAIN ConfiguredStateVariables
        \/ state_variables[s] # ConfiguredStateVariables[s]

\* C37: start(), stop(), reset() and triggerEvent() leave the variable
\* store, the callback registry and the observer list as they were, so a
\* locally written value survives leaving the state, stop, reset and start,
\* and every binding and observer is still registered after reset().
C37_LifecycleFrame ==
    [][LifecycleStep =>
           /\ global_variables' = global_variables
           /\ state_variables' = state_variables
           /\ state_callbacks' = state_callbacks
           /\ transition_callbacks' = transition_callbacks
           /\ guards' = guards
           /\ actions' = actions
           /\ observers' = observers]_vars

\* a reset that stopped a Running machine, with a locally written value, a
\* guard and an observer all still in place
C37_Witness ==
    /\ lastOp.op = "reset"
    /\ lastOp.pre_started
    /\ LocallyWritten
    /\ guards # EmptyMap
    /\ observers # << >>

-----------------------------------------------------------------------------
(* Starting a stopped machine                                              *)

\* the last operation found the machine Stopped: not Running, with the
\* current state stop() retained
FoundStopped == ~lastOp.pre_started /\ lastOp.pre_current_state # ""

\* the outcome of a lifecycle call or an event on a machine that is not
\* Running, whichever state name it holds
OutcomeWhenNotRunning ==
    CASE lastOp.op = "start" ->
            IF config.initial_state \in DOMAIN config.states THEN "ok"
            ELSE "StateException"
      [] lastOp.op = "reset" -> "ok"
      [] OTHER -> "StateException"

\* C38: start() on a Stopped machine succeeds: it replaces the retained
\* current state by the initial state, fires the initial state's enter
\* hooks and no others, and marks the machine Running; a machine that is
\* not Running answers start, stop, reset and triggerEvent the same way
\* whether it is Stopped or NotStarted.
C38_StartFromStopped ==
    /\ (lastOp.op = "start" /\ FoundStopped) =>
          LET init == config.initial_state
          IN  /\ lastOp.result = "ok"
              /\ current_state = init
              /\ started
              /\ Hooks(log) =
                    StateCallbackCall(init \o ":on_enter", init, FALSE)
                    \o ActionCalls(config.states[init].actions, init, FALSE)
                    \o Fanout("onStateEnter", init, NoEvent, init, FALSE)
    /\ (lastOp.op \in {"start", "stop", "reset", "triggerEvent"}
         /\ ~lastOp.pre_started) =>
          /\ lastOp.result = OutcomeWhenNotRunning
          /\ started = (lastOp.op = "start" /\ lastOp.result = "ok")

\* a machine stopped in "active" has been started again and is in "idle"
C38_Witness ==
    /\ lastOp.op = "start"
    /\ ~lastOp.pre_started
    /\ lastOp.pre_current_state = "active"
    /\ current_state = "idle"
    /\ started
    /\ Hooks(log) # << >>

-----------------------------------------------------------------------------
(* Identities and keys                                                     *)

\* the map a call of the last operation's kind looks in
NamespaceOf(op) ==
    CASE op \in {"callStateCallback", "hasStateCallback"} -> "state"
      [] op \in {"callTransitionCallback", "hasTransitionCallback"} -> "transition"
      [] OTHER -> "guard"

\* the callable most recently registered under exactly this identity
RegisteredUnder(namespace, id) ==
    LET at == {i \in DOMAIN history :
                  history[i][1] = namespace /\ history[i][2] = id}
    IN  IF at = {} THEN << >>
        ELSE << history[CHOOSE i \in at : \A j \in at : j <= i][3] >>

\* C39: registrations under distinct identities never alias: a call under
\* an identity runs, and a has-query under it reports, only what was
\* registered under that same (state, kind), (from, to) or (from, to,
\* event) identity, also for names that contain ':'.
C39_IdentitiesNeverAlias ==
    /\ lastOp.op \in {"callStateCallback", "callTransitionCallback", "callGuard"} =>
          lastOp.value = RegisteredUnder(NamespaceOf(lastOp.op), lastOp.arg)
    /\ lastOp.op \in {"hasStateCallback", "hasTransitionCallback", "hasGuard"} =>
          lastOp.value =
              << RegisteredUnder(NamespaceOf(lastOp.op), lastOp.arg) # << >> >>

====
